---- MODULE Spec2Model ----
(***************************************************************************)
(* super-sitemap: the route-to-path expansion engine of src/lib/sitemap.ts *)
(* (response, generatePaths and the functions they call).                  *)
(*                                                                         *)
(* A JavaScript string is a sequence of one-character strings, so that     *)
(* every regular expression, slice and replace of the source is computed   *)
(* on characters.  Positions are 1-based in the sequences; where the       *)
(* source computes with 0-based indices (indexOf, slice, RegExp index) the *)
(* operators below take and return the 0-based JavaScript values.          *)
(***************************************************************************)
EXTENDS Integers, Sequences, FiniteSets, TLC

VARIABLES
    pc,                   \* position inside response() / generatePaths()
    allRoutes,            \* keys of import.meta.glob, as raw file names
    origin,               \* config.origin ("" when missing)
    lang,                 \* config.lang
    excludeRoutePatterns, \* config.excludeRoutePatterns
    paramValues,          \* config.paramValues, in key insertion order
    defaults,             \* config.defaultChangefreq / defaultPriority
    additionalPaths,      \* config.additionalPaths
    sort,                 \* config.sort
    processPaths,         \* config.processPaths ("undefined" when missing)
    maxPerPage,           \* config.maxPerPage
    page,                 \* config.page
    headers,              \* config.headers, as the entries of the object
    filteredRoutes,       \* generatePaths: const filteredRoutes
    processedRoutes,      \* generatePaths: const processedRoutes
    pathsWithLang,        \* generatePaths: pathsWithLang
    pathsWithoutLang,     \* generatePaths: pathsWithoutLang
    generated,            \* value returned by generatePaths
    paths,                \* response: let paths (after dedup and sort)
    result,               \* what response() returned or threw
    sampled               \* what sampledUrls() returned or threw

vars == <<pc, allRoutes, origin, lang, excludeRoutePatterns, paramValues,
          defaults, additionalPaths, sort, processPaths, maxPerPage, page, filteredRoutes,
          processedRoutes, pathsWithLang, pathsWithoutLang, generated, paths,
          result, headers, sampled>>

-----------------------------------------------------------------------------
(* Characters and JavaScript string primitives.                            *)

Lower == {"a","b","c","d","e","f","g","h","i","j","k","l","m",
          "n","o","p","q","r","s","t","u","v","w","x","y","z"}

Digit == {"0","1","2","3","4","5","6","7","8","9"}

\* UTF-16 code unit of each character the model uses.
CodeUnit ==
    ( "(" :> 40 @@ ")" :> 41 @@ "+" :> 43 @@ "-" :> 45 @@ "." :> 46 @@
      "/" :> 47 @@ "0" :> 48 @@ "1" :> 49 @@ "2" :> 50 @@ "3" :> 51 @@
      "4" :> 52 @@ "5" :> 53 @@ "6" :> 54 @@ "7" :> 55 @@ "8" :> 56 @@
      "9" :> 57 @@ "=" :> 61 @@ "@" :> 64 @@ "B" :> 66 @@ "[" :> 91 @@
      "]" :> 93 @@ "_" :> 95 @@
      "a" :> 97 @@ "b" :> 98 @@ "c" :> 99 @@ "d" :> 100 @@ "e" :> 101 @@
      "f" :> 102 @@ "g" :> 103 @@ "h" :> 104 @@ "i" :> 105 @@ "j" :> 106 @@
      "k" :> 107 @@ "l" :> 108 @@ "m" :> 109 @@ "n" :> 110 @@ "o" :> 111 @@
      "p" :> 112 @@ "q" :> 113 @@ "r" :> 114 @@ "s" :> 115 @@ "t" :> 116 @@
      "u" :> 117 @@ "v" :> 118 @@ "w" :> 119 @@ "x" :> 120 @@ "y" :> 121 @@
      "z" :> 122 )

\* A const binding: the value v is computed once and named in G.
Bind(v, G(_)) == CHOOSE r \in { G(x) : x \in {v} } : TRUE

Min(a, b) == IF a < b THEN a ELSE b
Max(a, b) == IF a > b THEN a ELSE b

\* pat occurs in s at 1-based position i.
IsAt(s, pat, i) ==
    /\ i >= 1
    /\ i + Len(pat) - 1 <= Len(s)
    /\ \A k \in 1..Len(pat) : s[i + k - 1] = pat[k]

\* String.prototype.indexOf: 0-based index of the first occurrence, or -1.
indexOf(s, pat) ==
    LET hits == { i \in 1..Len(s) : IsAt(s, pat, i) }
    IN  IF hits = {} THEN -1
        ELSE (CHOOSE i \in hits : \A j \in hits : i <= j) - 1

\* String.prototype.slice(start, end) with 0-based, possibly negative, indices.
slice(s, start, end) ==
    Bind(<<s, start, end>>, LAMBDA arg :
        LET n    == Len(arg[1])
            from == IF arg[2] < 0 THEN Max(n + arg[2], 0) ELSE Min(arg[2], n)
            to   == IF arg[3] < 0 THEN Max(n + arg[3], 0) ELSE Min(arg[3], n)
        IN  IF from < to THEN SubSeq(arg[1], from + 1, to) ELSE <<>>)

\* String.prototype.slice(start).
sliceFrom(s, start) == slice(s, start, Len(s))

startsWith(s, pat) == IsAt(s, pat, 1)

endsWith(s, pat) == IsAt(s, pat, Len(s) - Len(pat) + 1)

\* s.split('/').filter(Boolean): the non-empty pieces between slashes.
RECURSIVE SplitFrom(_, _, _)
SplitFrom(s, p, cur) ==
    Bind(<<p, cur>>, LAMBDA at :
        IF at[1] > Len(s) THEN (IF at[2] = <<>> THEN <<>> ELSE <<at[2]>>)
        ELSE IF s[at[1]] = "/"
             THEN (IF at[2] = <<>> THEN <<>> ELSE <<at[2]>>)
                    \o SplitFrom(s, at[1] + 1, <<>>)
             ELSE SplitFrom(s, at[1] + 1, Append(at[2], s[at[1]])))

splitSegments(s) == Bind(s, LAMBDA str : SplitFrom(str, 1, <<>>))

\* a < b in UTF-16 code unit order (the order of Array.prototype.sort()).
RECURSIVE CodeUnitLess(_, _)
CodeUnitLess(a, b) ==
    IF b = <<>> THEN FALSE
    ELSE IF a = <<>> THEN TRUE
    ELSE IF a[1] = b[1] THEN CodeUnitLess(Tail(a), Tail(b))
    ELSE CodeUnit[a[1]] < CodeUnit[b[1]]

\* One concatenation of the strings of a sequence.
RECURSIVE Flatten(_)
Flatten(ss) ==
    Bind(ss, LAMBDA lists :
        IF lists = <<>> THEN <<>> ELSE Head(lists) \o Flatten(Tail(lists)))

\* The elements of a sequence, as a set.
Range(f) == { f[i] : i \in DOMAIN f }

\* Array.prototype.includes.
includes(arr, x) == \E i \in DOMAIN arr : arr[i] = x

-----------------------------------------------------------------------------
(* The regular expressions of sitemap.ts, each computed on characters.     *)

\* Length of (=[a-z]+)? at 1-based position j: "=" and the run of lower-case
\* letters after it, 0 when the group matches nothing.
MatcherLen(s, j) ==
    IF j <= Len(s) /\ s[j] = "="
    THEN LET stops == { k \in (j + 1)..(Len(s) + 1) : k = Len(s) + 1 \/ s[k] \notin Lower }
             stop  == CHOOSE k \in stops : \A m \in stops : k <= m
         IN  IF stop > j + 1 THEN stop - j ELSE 0
    ELSE 0

\* Length of a match of \[(\[lang(=[a-z]+)?\]|lang(=[a-z]+)?)\] at position i,
\* 0 when there is none.
LangTokenLen(s, i) ==
    IF IsAt(s, <<"[", "[">> \o <<"l", "a", "n", "g">>, i)
    THEN LET m == MatcherLen(s, i + 6)
         IN  IF IsAt(s, <<"]", "]">>, i + 6 + m) THEN 8 + m ELSE 0
    ELSE IF IsAt(s, <<"[">> \o <<"l", "a", "n", "g">>, i)
    THEN LET m == MatcherLen(s, i + 5)
         IN  IF IsAt(s, <<"]">>, i + 5 + m) THEN 6 + m ELSE 0
    ELSE 0

\* A match of a regular expression: found, its 0-based index, its text.
NoMatch == [found |-> FALSE, index |-> -1, text |-> <<>>]

\* langRegexNoPath.exec(s)
langRegexNoPath(s) ==
    LET hits == { i \in 1..Len(s) : LangTokenLen(s, i) > 0 }
    IN  IF hits = {} THEN NoMatch
        ELSE LET i == CHOOSE h \in hits : \A g \in hits : h <= g
             IN  [found |-> TRUE, index |-> i - 1,
                  text |-> SubSeq(s, i, i + LangTokenLen(s, i) - 1)]

\* langRegex.exec(s): the same token with an optional "/" before it.
langRegex(s) ==
    LET LenAt(i) == IF i <= Len(s) /\ s[i] = "/"
                    THEN (IF LangTokenLen(s, i + 1) > 0
                          THEN 1 + LangTokenLen(s, i + 1) ELSE 0)
                    ELSE LangTokenLen(s, i)
        hits == { i \in 1..Len(s) : LenAt(i) > 0 }
    IN  IF hits = {} THEN NoMatch
        ELSE LET i == CHOOSE h \in hits : \A g \in hits : h <= g
             IN  [found |-> TRUE, index |-> i - 1,
                  text |-> SubSeq(s, i, i + LenAt(i) - 1)]

\* s.replace(re, by) for a match m of a regular expression without the g flag.
replaceMatch(s, m, by) ==
    Bind(m, LAMBDA match :
        IF match.found
        THEN SubSeq(s, 1, match.index) \o by
               \o SubSeq(s, match.index + Len(match.text) + 1, Len(s))
        ELSE s)

\* /\/?\[lang(=[a-z]+)?\](?!\])/.test(s): a required language token.
hasLangRequired(s) ==
    \E i \in 1..Len(s) :
        /\ IsAt(s, <<"[">> \o <<"l", "a", "n", "g">>, i)
        /\ LET m == MatcherLen(s, i + 5)
           IN  /\ IsAt(s, <<"]">>, i + 5 + m)
               /\ ~IsAt(s, <<"]">>, i + 6 + m)

\* /\[\[.*\]\]/.test(s)
hasOptionalToken(s) ==
    \E str \in {s} :
        \E i \in 1..Len(str) : \E j \in (i + 2)..Len(str) :
            IsAt(str, <<"[", "[">>, i) /\ IsAt(str, <<"]", "]">>, j)

\* /.*(\[\[.+\]\]|\[.+\]).*/.test(s)
hasAnyToken(s) ==
    \E str \in {s} :
        \E i \in 1..Len(str) : \E j \in (i + 2)..Len(str) :
            str[i] = "[" /\ str[j] = "]"

\* Last 1-based position of the match of (\[\[.+?\]\]|\[.+?\]) that starts at
\* position p, 0 when none starts there.
TokenEnd(s, p) ==
    IF p > Len(s) \/ s[p] # "[" THEN 0
    ELSE LET two == IF IsAt(s, <<"[", "[">>, p)
                    THEN { k \in (p + 3)..Len(s) : IsAt(s, <<"]", "]">>, k) }
                    ELSE {}
             one == { k \in (p + 2)..Len(s) : s[k] = "]" }
         IN  IF two # {} THEN (CHOOSE k \in two : \A m \in two : k <= m) + 1
             ELSE IF one # {} THEN CHOOSE k \in one : \A m \in one : k <= m
             ELSE 0

\* A faulty replacement of the tokens: the counter of the callback stays 0.
RECURSIVE ReplaceTokensNoCount(_, _, _)
ReplaceTokensNoCount(s, p, values) ==
    Bind(<<p, TokenEnd(s, p)>>, LAMBDA at :
        IF at[1] > Len(s) THEN <<>>
        ELSE IF at[2] > 0
        THEN (IF values # <<>> THEN values[1] ELSE <<>>)
             \o ReplaceTokensNoCount(s, at[2] + 1, values)
        ELSE <<s[at[1]]>> \o ReplaceTokensNoCount(s, at[1] + 1, values))

replaceParamTokensNoCount(s, values) ==
    Bind(<<s, values>>, LAMBDA arg : ReplaceTokensNoCount(arg[1], 1, arg[2]))

\* s.replace(PARAM_TOKEN_REGEX, () => values[i++] || ''), from position p with
\* the counter i of the callback at n (0-based).
RECURSIVE ReplaceTokensFrom(_, _, _, _)
ReplaceTokensFrom(s, p, values, n) ==
    Bind(<<p, n, TokenEnd(s, p)>>, LAMBDA at :
        IF at[1] > Len(s) THEN <<>>
        ELSE IF at[3] > 0
        THEN (IF at[2] + 1 <= Len(values) THEN values[at[2] + 1] ELSE <<>>)
             \o ReplaceTokensFrom(s, at[3] + 1, values, at[2] + 1)
        ELSE <<s[at[1]]>> \o ReplaceTokensFrom(s, at[1] + 1, values, at[2]))

replaceParamTokens(s, values) ==
    Bind(<<s, values>>, LAMBDA arg : ReplaceTokensFrom(arg[1], 1, arg[2], 0))

\* s.replace(/\[.*\]/, value): from the first "[" to the last "]".
replaceBracketSpan(s, value) ==
    LET opens == { i \in 1..Len(s) : s[i] = "[" /\ \E j \in (i + 1)..Len(s) : s[j] = "]" }
    IN  IF opens = {} THEN s
        ELSE LET i == CHOOSE o \in opens : \A q \in opens : o <= q
                 j == CHOOSE c \in (i + 1)..Len(s) :
                          s[c] = "]" /\ \A d \in (c + 1)..Len(s) : s[d] # "]"
             IN  SubSeq(s, 1, i - 1) \o value \o SubSeq(s, j + 1, Len(s))

\* x.replace(/\/\+page.*\.(svelte|md|svx)$/, '')
stripPageSuffix(x) ==
    LET exts == { <<".", "s", "v", "e", "l", "t", "e">>, <<".", "m", "d">>, <<".", "s", "v", "x">> }
        hits == { i \in 1..Len(x) :
                    /\ IsAt(x, <<"/", "+", "p", "a", "g", "e">>, i)
                    /\ \E e \in exts : endsWith(x, e) /\ Len(x) - Len(e) + 1 >= i + 6 }
    IN  IF hits = {} THEN x
        ELSE SubSeq(x, 1, (CHOOSE i \in hits : \A j \in hits : i <= j) - 1)

\* Last position of the match of \/\([^)]+\) that starts at p, 0 when none.
GroupEnd(x, p) ==
    IF IsAt(x, <<"/", "(">>, p)
    THEN LET closes == { k \in (p + 2)..Len(x) : x[k] = ")" }
         IN  IF closes = {} THEN 0
             ELSE LET k == CHOOSE c \in closes : \A d \in closes : c <= d
                  IN  IF k >= p + 3 THEN k ELSE 0
    ELSE 0

\* x.replaceAll(/\/\([^)]+\)/g, '')
RECURSIVE StripGroupsFrom(_, _)
StripGroupsFrom(x, p) ==
    Bind(<<p, GroupEnd(x, p)>>, LAMBDA at :
        IF at[1] > Len(x) THEN <<>>
        ELSE IF at[2] > 0 THEN StripGroupsFrom(x, at[2] + 1)
        ELSE <<x[at[1]]>> \o StripGroupsFrom(x, at[1] + 1))

stripGroups(x) == Bind(x, LAMBDA str : StripGroupsFrom(str, 1))

\* new RegExp(pattern).test(x) for the patterns of the model: a literal text,
\* anchored with ^ at its start and with $ at its end or not ("^lit", "lit$",
\* "lit", ".*lit.*").
regexTest(pattern, x) ==
    \E i \in 1..(Len(x) + 1) :
        /\ IsAt(x, pattern.lit, i)
        /\ pattern.atStart => i = 1
        /\ pattern.atEnd => i + Len(pattern.lit) - 1 = Len(x)

-----------------------------------------------------------------------------
(* filterRoutes and the expansion of optional parameters.                  *)

RECURSIVE InsertSorted(_, _)
InsertSorted(sorted, x) ==
    Bind(sorted, LAMBDA arr :
        IF arr = <<>> THEN <<x>>
        ELSE IF CodeUnitLess(x, Head(arr)) THEN <<x>> \o arr
        ELSE <<Head(arr)>> \o InsertSorted(Tail(arr), x))

\* Array.prototype.sort() without a comparator: ascending code unit order.
RECURSIVE sortDefault(_)
sortDefault(arr) ==
    Bind(arr, LAMBDA a :
        IF a = <<>> THEN <<>>
        ELSE Bind(a[Len(a)], LAMBDA last :
                 InsertSorted(sortDefault(SubSeq(a, 1, Len(a) - 1)), last)))

\* First map of filterRoutes: drop "/src/routes" and the page file name.
normalizeRoute(x) ==
    Bind(sliceFrom(x, 11), LAMBDA sliced :
    Bind(stripPageSuffix(sliced), LAMBDA y :
        IF y = <<>> THEN <<"/">> ELSE y))

\* Second map of filterRoutes: drop the groups.
removeGroups(x) ==
    Bind(stripGroups(x), LAMBDA y : IF y = <<>> THEN <<"/">> ELSE y)

isExcluded(x, patterns) == \E k \in DOMAIN patterns : regexTest(patterns[k], x)

\* A faulty filterRoutes: the groups are removed before the patterns are tested.
filterRoutesStripFirst(routes, patterns) ==
    Bind([k \in DOMAIN routes |-> removeGroups(normalizeRoute(routes[k]))], LAMBDA stripped :
        sortDefault(SelectSeq(stripped, LAMBDA x : ~isExcluded(x, patterns))))

filterRoutes(routes, patterns) ==
    Bind([k \in DOMAIN routes |-> normalizeRoute(routes[k])], LAMBDA normalized :
    Bind(SelectSeq(normalized, LAMBDA x : ~isExcluded(x, patterns)), LAMBDA kept :
        sortDefault([k \in DOMAIN kept |-> removeGroups(kept[k])])))

\* A faulty loop of processOptionalParams: every segment starts a result.
RECURSIVE OptionalLoopEachSegment(_, _, _)
OptionalLoopEachSegment(segments, results, j) ==
    IF segments = <<>> THEN results
    ELSE OptionalLoopEachSegment(Tail(segments),
             Append(results, results[Len(results)] \o <<"/">> \o Head(segments)),
             j + 1)

\* The loop of processOptionalParams over the segments; j is the 0-based index
\* of the result being built.
RECURSIVE OptionalLoop(_, _, _)
OptionalLoop(segments, results, j) ==
    Bind(<<segments, results, j>>, LAMBDA at :
        IF at[1] = <<>> THEN at[2]
        ELSE LET segment == Head(at[1])
                 started == IF Len(at[2]) < at[3] + 1
                            THEN Append(at[2], at[2][at[3]])
                            ELSE at[2]
                 grown   == [started EXCEPT ![at[3] + 1] = @ \o <<"/">> \o segment]
             IN  OptionalLoop(Tail(at[1]), grown,
                              IF startsWith(segment, <<"[", "[">>)
                              THEN at[3] + 1 ELSE at[3]))

\* A faulty last step of processOptionalParams: the empty result is kept.
keepEmptyResult(results) == results

\* if (!results[0].length) results[0] = '/'
rootWhenEmpty(results) ==
    IF results[1] = <<>> THEN [results EXCEPT ![1] = <<"/">>] ELSE results

processOptionalParams(originalRoute) ==
    Bind(langRegex(originalRoute), LAMBDA hasLang :
    Bind(IF hasLang.found THEN replaceMatch(originalRoute, hasLang, <<>>)
         ELSE originalRoute, LAMBDA route :
    Bind(slice(route, 0, indexOf(route, <<"[", "[">>) - 1), LAMBDA first :
    Bind(sliceFrom(route, indexOf(route, <<"[", "[">>)), LAMBDA remaining :
    Bind(OptionalLoop(splitSegments(remaining), <<first>>, 1), LAMBDA results :
    Bind(IF hasLang.found
         THEN [k \in DOMAIN results |->
                 slice(results[k], 0, hasLang.index) \o hasLang.text
                   \o sliceFrom(results[k], hasLang.index)]
         ELSE results, LAMBDA withLang :
        rootWhenEmpty(withLang)))))))

\* Array.from(new Set(arr)): the first occurrence of each value, in order.
RECURSIVE uniqueInOrder(_)
uniqueInOrder(arr) ==
    Bind(arr, LAMBDA a :
        IF a = <<>> THEN <<>>
        ELSE Bind(uniqueInOrder(SubSeq(a, 1, Len(a) - 1)), LAMBDA front :
                 IF includes(front, a[Len(a)]) THEN front
                 ELSE Append(front, a[Len(a)])))

processRoutesForOptionalParams(routes) ==
    LET expand(route) ==
            Bind(replaceMatch(route, langRegex(route), <<>>), LAMBDA routeWithoutLangIfAny :
                IF hasOptionalToken(routeWithoutLangIfAny)
                THEN processOptionalParams(route)
                ELSE <<route>>)
    IN  Bind(routes, LAMBDA rs :
            uniqueInOrder(Flatten([k \in DOMAIN rs |-> expand(rs[k])])))

-----------------------------------------------------------------------------
(* Path objects.  A missing property is "undefined"; a path object without *)
(* alternates has alternates = <<>>.                                       *)

PathObj(path, changefreq, lastmod, priority, alternates) ==
    [path |-> path, changefreq |-> changefreq, lastmod |-> lastmod,
     priority |-> priority, alternates |-> alternates]

\* { ...defaults, path }
withDefaults(path, dflt) ==
    PathObj(path, dflt.changefreq, "undefined", dflt.priority, <<>>)

\* a ?? b
Coalesce(a, b) == IF a = "undefined" THEN b ELSE a

\* Faulty path objects: a || b for a ?? b, so that the priority 0.0 of an item
\* gives way to the default.
entryPathObjsOr(routeSansLang, items, dflt) ==
    LET first == IF items = <<>> THEN "undefined" ELSE items[1].kind
        or(a, b) == IF a \in { "undefined", "", "0.0" } THEN b ELSE a
    IN  IF first = "object"
        THEN [k \in DOMAIN items |->
                PathObj(replaceParamTokens(routeSansLang, items[k].values),
                        or(items[k].changefreq, dflt.changefreq),
                        items[k].lastmod,
                        or(items[k].priority, dflt.priority),
                        <<>>)]
        ELSE IF first = "array"
        THEN [k \in DOMAIN items |->
                withDefaults(replaceParamTokens(routeSansLang, items[k].values), dflt)]
        ELSE [k \in DOMAIN items |->
                withDefaults(replaceBracketSpan(routeSansLang, items[k].str), dflt)]

\* The path objects of one paramValues entry, before the language token is put
\* back (the three branches on the shape of paramValue[0]).
entryPathObjs(routeSansLang, items, dflt) ==
    LET first == IF items = <<>> THEN "undefined" ELSE items[1].kind
    IN  IF first = "object"
        THEN [k \in DOMAIN items |->
                PathObj(replaceParamTokens(routeSansLang, items[k].values),
                        Coalesce(items[k].changefreq, dflt.changefreq),
                        items[k].lastmod,
                        Coalesce(items[k].priority, dflt.priority),
                        <<>>)]
        ELSE IF first = "array"
        THEN [k \in DOMAIN items |->
                withDefaults(replaceParamTokens(routeSansLang, items[k].values), dflt)]
        ELSE [k \in DOMAIN items |->
                withDefaults(replaceBracketSpan(routeSansLang, items[k].str), dflt)]

\* A faulty removal: the route of the key stays among the routes.
spliceOutNothing(routes, key) == routes

\* routes.splice(routes.indexOf(key), 1)
spliceOut(routes, key) ==
    LET hits == { i \in DOMAIN routes : routes[i] = key }
        at   == IF hits = {} THEN Len(routes)
                ELSE CHOOSE i \in hits : \A j \in hits : i <= j
    IN  SubSeq(routes, 1, at - 1) \o SubSeq(routes, at + 1, Len(routes))

\* The loop over the keys of paramValues: the paths generated so far and the
\* routes not yet removed.
RECURSIVE bindLoop(_, _, _)
bindLoop(entries, acc, dflt) ==
    Bind(<<entries, acc>>, LAMBDA at :
        IF at[1] = <<>> THEN at[2]
        ELSE
        Bind(Head(at[1]), LAMBDA entry :
        Bind(langRegex(entry.key), LAMBDA hasLang :
        Bind(replaceMatch(entry.key, hasLang, <<>>), LAMBDA routeSansLang :
        Bind(entryPathObjs(routeSansLang, entry.items, dflt), LAMBDA pathObjs :
        Bind([k \in DOMAIN pathObjs |->
                [pathObjs[k] EXCEPT !.path =
                    slice(@, 0, hasLang.index) \o hasLang.text
                      \o sliceFrom(@, hasLang.index)]], LAMBDA relanged :
            bindLoop(Tail(at[1]),
                     [routes           |-> spliceOut(at[2].routes, entry.key),
                      pathsWithLang    |-> IF hasLang.found
                                           THEN at[2].pathsWithLang \o relanged
                                           ELSE at[2].pathsWithLang,
                      pathsWithoutLang |-> IF hasLang.found
                                           THEN at[2].pathsWithoutLang
                                           ELSE at[2].pathsWithoutLang \o pathObjs],
                     dflt)))))))

\* A faulty check for missing paramValues: it looks for [[foo]] only.
missingOptionalOnly(route) ==
    hasOptionalToken(replaceMatch(route, langRegex(route), <<>>))

\* A route left without paramValues that still holds a token.
missingParamValues(route) ==
    Bind(replaceMatch(route, langRegex(route), <<>>), LAMBDA sansLang :
        hasAnyToken(IF sansLang = <<>> THEN <<"/">> ELSE sansLang))

\* A faulty first loop: it stops after the first key.
hasStaleKeyFirstOnly(routes, entries) ==
    entries # <<>> /\ ~includes(routes, entries[1].key)

\* The first loop of generatePathsWithParamValues: a key that is no route.
hasStaleKey(routes, entries) ==
    \E k \in DOMAIN entries : ~includes(routes, entries[k].key)

generatePathsWithParamValues(routes, entries, dflt) ==
    IF hasStaleKey(routes, entries)
    THEN [threw |-> TRUE, error |-> "paramValues for a route that does not exist",
          routes |-> routes, pathsWithLang |-> <<>>, pathsWithoutLang |-> <<>>]
    ELSE
    Bind(bindLoop(entries,
                  [routes |-> routes, pathsWithLang |-> <<>>,
                   pathsWithoutLang |-> <<>>],
                  dflt), LAMBDA bound :
    Bind([k \in DOMAIN bound.routes |-> withDefaults(bound.routes[k], dflt)], LAMBDA statics :
        LET staticWithLang    == SelectSeq(statics, LAMBDA o : langRegex(o.path).found)
            staticWithoutLang == SelectSeq(statics, LAMBDA o : ~langRegex(o.path).found)
        IN  IF \E k \in DOMAIN bound.routes : missingParamValues(bound.routes[k])
            THEN [threw |-> TRUE, error |-> "paramValues not provided",
                  routes |-> bound.routes, pathsWithLang |-> <<>>,
                  pathsWithoutLang |-> <<>>]
            ELSE [threw |-> FALSE, error |-> "",
                  routes |-> bound.routes,
                  pathsWithLang    |-> staticWithLang \o bound.pathsWithLang,
                  pathsWithoutLang |-> staticWithoutLang \o bound.pathsWithoutLang]))

\* Faulty variations: the default language never shows in the path, also
\* when the language token is required.
variationsOfOptionalOnly(path, langConfig) ==
    Bind(replaceMatch(path, langRegex(path), <<>>), LAMBDA sans :
        <<[lang |-> langConfig.default,
           path |-> IF sans = <<>> THEN <<"/">> ELSE sans]>>
        \o [k \in DOMAIN langConfig.alternates |->
              [lang |-> langConfig.alternates[k],
               path |-> replaceMatch(path, langRegexNoPath(path),
                                     langConfig.alternates[k])]])

\* The variations of one path: the default language, then the alternates.
variationsOf(path, langConfig) ==
    Bind(langRegex(path), LAMBDA m :
    Bind(replaceMatch(path, m, <<>>), LAMBDA sans :
    Bind(langRegexNoPath(path), LAMBDA token :
        <<[lang |-> langConfig.default,
           path |-> IF hasLangRequired(path)
                    THEN replaceMatch(path, m, <<"/">> \o langConfig.default)
                    ELSE IF sans = <<>> THEN <<"/">> ELSE sans]>>
        \o [k \in DOMAIN langConfig.alternates |->
              [lang |-> langConfig.alternates[k],
               path |-> replaceMatch(path, token, langConfig.alternates[k])]])))

\* A faulty expansion: each record lists the other languages only.
processPathsWithLangOthersOnly(pathObjs, langConfig) ==
    LET expand(pathObj) ==
            Bind(variationsOf(pathObj.path, langConfig), LAMBDA variations :
                [k \in DOMAIN variations |->
                   [pathObj EXCEPT
                      !.alternates = SelectSeq(variations,
                                        LAMBDA v : v.lang # variations[k].lang),
                      !.path = variations[k].path]])
    IN  Bind(pathObjs, LAMBDA objs :
            Flatten([k \in DOMAIN objs |-> expand(objs[k])]))

processPathsWithLang(pathObjs, langConfig) ==
    LET expand(pathObj) ==
            Bind(variationsOf(pathObj.path, langConfig), LAMBDA variations :
                [k \in DOMAIN variations |->
                   [pathObj EXCEPT !.alternates = variations,
                                   !.path = variations[k].path]])
    IN  Bind(pathObjs, LAMBDA objs :
            Flatten([k \in DOMAIN objs |-> expand(objs[k])]))

\* A faulty deduplication: a path takes the place of its last occurrence.
RECURSIVE deduplicateAtLastPlace(_)
deduplicateAtLastPlace(pathObjs) ==
    IF pathObjs = <<>> THEN <<>>
    ELSE IF \E k \in DOMAIN Tail(pathObjs) : Tail(pathObjs)[k].path = Head(pathObjs).path
    THEN deduplicateAtLastPlace(Tail(pathObjs))
    ELSE <<Head(pathObjs)>> \o deduplicateAtLastPlace(Tail(pathObjs))

\* A faulty deduplication: the first record of a path is the one kept.
RECURSIVE deduplicateKeepFirst(_)
deduplicateKeepFirst(pathObjs) ==
    Bind(pathObjs, LAMBDA objs :
        IF objs = <<>> THEN <<>>
        ELSE Bind(deduplicateKeepFirst(SubSeq(objs, 1, Len(objs) - 1)), LAMBDA front :
                 IF \E k \in DOMAIN front : front[k].path = objs[Len(objs)].path
                 THEN front
                 ELSE Append(front, objs[Len(objs)])))

\* new Map, set(path, pathObj) for each, then values(): a path keeps the place
\* of its first occurrence and the object of its last.
RECURSIVE deduplicatePaths(_)
deduplicatePaths(pathObjs) ==
    Bind(pathObjs, LAMBDA objs :
        IF objs = <<>> THEN <<>>
        ELSE Bind(deduplicatePaths(SubSeq(objs, 1, Len(objs) - 1)), LAMBDA front :
                 LET last == objs[Len(objs)]
                 IN  IF \E k \in DOMAIN front : front[k].path = last.path
                     THEN [k \in DOMAIN front |->
                             IF front[k].path = last.path THEN last ELSE front[k]]
                     ELSE Append(front, last)))

generateAdditionalPaths(additional, dflt) ==
    [k \in DOMAIN additional |->
        withDefaults(IF startsWith(additional[k], <<"/">>) THEN additional[k]
                     ELSE <<"/">> \o additional[k],
                     dflt)]

-----------------------------------------------------------------------------
(* Sorting, serialization and pagination.                                  *)

\* Primary collation weight of each character for String.prototype
\* localeCompare (the root collation: punctuation, then digits, then letters,
\* an upper-case letter sharing the weight of its lower-case letter).
Collation ==
    ( "_" :> 1 @@ "-" :> 2 @@ "." :> 3 @@ "(" :> 4 @@ ")" :> 5 @@ "[" :> 6 @@
      "]" :> 7 @@ "@" :> 8 @@ "/" :> 9 @@ "+" :> 10 @@ "=" :> 11 @@
      "0" :> 12 @@ "1" :> 13 @@ "2" :> 14 @@ "3" :> 15 @@ "4" :> 16 @@
      "5" :> 17 @@ "6" :> 18 @@ "7" :> 19 @@ "8" :> 20 @@ "9" :> 21 @@
      "a" :> 22 @@ "b" :> 23 @@ "B" :> 23 @@ "c" :> 24 @@ "d" :> 25 @@
      "e" :> 26 @@ "f" :> 27 @@ "g" :> 28 @@ "h" :> 29 @@ "i" :> 30 @@
      "j" :> 31 @@ "k" :> 32 @@ "l" :> 33 @@ "m" :> 34 @@ "n" :> 35 @@
      "o" :> 36 @@ "p" :> 37 @@ "q" :> 38 @@ "r" :> 39 @@ "s" :> 40 @@
      "t" :> 41 @@ "u" :> 42 @@ "v" :> 43 @@ "w" :> 44 @@ "x" :> 45 @@
      "y" :> 46 @@ "z" :> 47 )

Upper == {"B"}

\* a before b at the primary level; 0 for a tie, -1 and 1 otherwise.
RECURSIVE PrimaryCompare(_, _)
PrimaryCompare(a, b) ==
    IF a = <<>> /\ b = <<>> THEN 0
    ELSE IF a = <<>> THEN -1
    ELSE IF b = <<>> THEN 1
    ELSE IF Collation[a[1]] = Collation[b[1]] THEN PrimaryCompare(Tail(a), Tail(b))
    ELSE IF Collation[a[1]] < Collation[b[1]] THEN -1 ELSE 1

\* The case level, for strings that tie at the primary level: lower case first.
RECURSIVE CaseCompare(_, _)
CaseCompare(a, b) ==
    IF a = <<>> \/ b = <<>> THEN 0
    ELSE IF (a[1] \in Upper) = (b[1] \in Upper) THEN CaseCompare(Tail(a), Tail(b))
    ELSE IF b[1] \in Upper THEN -1 ELSE 1

\* a.localeCompare(b)
localeCompare(a, b) ==
    Bind(PrimaryCompare(a, b), LAMBDA primary :
        IF primary # 0 THEN primary ELSE CaseCompare(a, b))

RECURSIVE InsertByLocale(_, _)
InsertByLocale(sorted, x) ==
    Bind(sorted, LAMBDA arr :
        IF arr = <<>> THEN <<x>>
        ELSE IF localeCompare(x.path, Head(arr).path) < 0 THEN <<x>> \o arr
        ELSE <<Head(arr)>> \o InsertByLocale(Tail(arr), x))

\* The insertion of the faulty sort below.
RECURSIVE InsertByCodeUnit(_, _)
InsertByCodeUnit(sorted, x) ==
    Bind(sorted, LAMBDA arr :
        IF arr = <<>> THEN <<x>>
        ELSE IF CodeUnitLess(x.path, Head(arr).path) THEN <<x>> \o arr
        ELSE <<Head(arr)>> \o InsertByCodeUnit(Tail(arr), x))

\* A faulty sort: the paths compared with <, by code unit.
RECURSIVE sortByCodeUnit(_)
sortByCodeUnit(pathObjs) ==
    Bind(pathObjs, LAMBDA objs :
        IF objs = <<>> THEN <<>>
        ELSE Bind(objs[Len(objs)], LAMBDA last :
                 InsertByCodeUnit(sortByCodeUnit(SubSeq(objs, 1, Len(objs) - 1)), last)))

\* paths.sort((a, b) => a.path.localeCompare(b.path))
RECURSIVE sortAlpha(_)
sortAlpha(pathObjs) ==
    Bind(pathObjs, LAMBDA objs :
        IF objs = <<>> THEN <<>>
        ELSE Bind(objs[Len(objs)], LAMBDA last :
                 InsertByLocale(sortAlpha(SubSeq(objs, 1, Len(objs) - 1)), last)))

\* `${origin}${path}`: the origin, then the characters of the path.
Url(org, path) == <<org>> \o path

\* A value in a condition: undefined, '' and 0 are false.
Truthy(v) == v \notin {"undefined", "", "0.0"}

\* One <url> of generateBody: an element the record does not carry is ''.
urlElement(org, pathObj) ==
    [loc        |-> Url(org, pathObj.path),
     lastmod    |-> IF Truthy(pathObj.lastmod) THEN pathObj.lastmod ELSE "",
     changefreq |-> IF Truthy(pathObj.changefreq) THEN pathObj.changefreq ELSE "",
     priority   |-> IF Truthy(pathObj.priority) THEN pathObj.priority ELSE "",
     links      |-> [k \in DOMAIN pathObj.alternates |->
                       [hreflang |-> pathObj.alternates[k].lang,
                        href     |-> Url(org, pathObj.alternates[k].path)]]]

generateBody(org, pathObjs) ==
    Bind(pathObjs, LAMBDA objs :
        [kind     |-> "urlset",
         urls     |-> [k \in DOMAIN objs |-> urlElement(org, objs[k])],
         sitemaps |-> <<>>,
         text     |-> ""])

DigitChar == <<"0", "1", "2", "3", "4", "5", "6", "7", "8", "9">>

\* `${i}` for an integer i >= 0.
RECURSIVE toDecimal(_)
toDecimal(i) ==
    IF i < 10 THEN <<DigitChar[i + 1]>>
    ELSE toDecimal(i \div 10) \o <<DigitChar[(i % 10) + 1]>>

generateSitemapIndex(org, pages) ==
    [kind     |-> "sitemapindex",
     urls     |-> <<>>,
     sitemaps |-> [i \in 1..pages |->
                     Url(org, <<"/", "s", "i", "t", "e", "m", "a", "p">> \o toDecimal(i) \o <<".", "x", "m", "l">>)],
     text     |-> ""]

\* A faulty test of the page: /^\d+$/.
isDigits(str) == str # <<>> /\ \A k \in DOMAIN str : str[k] \in Digit

\* /^[1-9]\d*$/.test(page)
isPageNumber(str) ==
    /\ str # <<>>
    /\ str[1] \in Digit \ {"0"}
    /\ \A k \in DOMAIN str : str[k] \in Digit

DigitValue(c) == CHOOSE d \in 0..9 : DigitChar[d + 1] = c

\* Number(page) for a string of digits.
RECURSIVE Number(_)
Number(str) ==
    IF str = <<>> THEN 0
    ELSE 10 * Number(SubSeq(str, 1, Len(str) - 1)) + DigitValue(str[Len(str)])

\* A faulty page count: Math.floor(count / perPage).
floorDiv(count, perPage) == count \div perPage

\* Math.ceil(count / perPage)
ceilDiv(count, perPage) == (count + perPage - 1) \div perPage

textBody(text) == [kind |-> "text", urls |-> <<>>, sitemaps |-> <<>>, text |-> text]

Threw(error) ==
    [kind |-> "threw", status |-> 0, error |-> error, headers |-> <<>>,
     body |-> [kind |-> "none", urls |-> <<>>, sitemaps |-> <<>>, text |-> ""]]

\* new Response(body, { status }): no header is given.
Response(status, body) ==
    [kind |-> "response", status |-> status, error |-> "", headers |-> <<>>,
     body |-> body]

\* A faulty slice: its end is one record too far.
pathsOnThisPageInclusive(pathObjs, perPage, pageInt) ==
    slice(pathObjs, (pageInt - 1) * perPage, pageInt * perPage + 1)

\* A faulty test of the last page.
pageAtOrAfterLast(pageInt, totalPages) == pageInt >= totalPages

\* pageInt > totalPages
pageDoesNotExist(pageInt, totalPages) == pageInt > totalPages

\* paths.slice((pageInt - 1) * maxPerPage, pageInt * maxPerPage)
pathsOnThisPage(pathObjs, perPage, pageInt) ==
    slice(pathObjs, (pageInt - 1) * perPage, pageInt * perPage)

\* response() from `const totalPages` on: the page is [given, str].
paginate(org, pathObjs, perPage, pg) ==
    Bind(ceilDiv(Len(pathObjs), perPage), LAMBDA totalPages :
        IF ~pg.given \/ pg.str = <<>>
        THEN (IF Len(pathObjs) <= perPage
              THEN Response(200, generateBody(org, pathObjs))
              ELSE Response(200, generateSitemapIndex(org, totalPages)))
        ELSE IF ~isPageNumber(pg.str)
        THEN Response(400, textBody("Invalid page param"))
        ELSE IF pageDoesNotExist(Number(pg.str), totalPages)
        THEN Response(404, textBody("Page does not exist"))
        ELSE Response(200, generateBody(org,
                 pathsOnThisPage(pathObjs, perPage, Number(pg.str)))))

\* The upper-case letters of the model and their lower-case letters.
LowerOf == ( "B" :> "b" @@ "C" :> "c" @@ "T" :> "t" )

\* String.prototype.toLowerCase
toLowerCase(s) ==
    [k \in DOMAIN s |-> IF s[k] \in DOMAIN LowerOf THEN LowerOf[s[k]] ELSE s[k]]

CacheControl == <<"c", "a", "c", "h", "e", "-", "c", "o", "n", "t", "r", "o", "l">>
ContentType == <<"c", "o", "n", "t", "e", "n", "t", "-", "t", "y", "p", "e">>

\* The two headers response() sets by itself, as an object: name to value.
DefaultHeaders ==
    ( CacheControl :> "max-age=0, s-maxage=3600" @@ ContentType :> "application/xml" )

\* Object.fromEntries: the last entry of a name gives its value.
fromEntries(entries) ==
    [name \in { entries[k].name : k \in DOMAIN entries } |->
        entries[CHOOSE k \in DOMAIN entries :
                   /\ entries[k].name = name
                   /\ \A j \in DOMAIN entries : j > k => entries[j].name # name].value]

\* Faulty headers: the names of the custom headers are taken as they are.
newHeadersCaseSensitive(custom) == fromEntries(custom) @@ DefaultHeaders

\* const newHeaders: the defaults, then the custom headers under their
\* lower-case names.
newHeaders(custom) ==
    fromEntries([k \in DOMAIN custom |->
                    [name |-> toLowerCase(custom[k].name), value |-> custom[k].value]])
      @@ DefaultHeaders

\* return new Response(body, { headers: newHeaders }): the last statement of
\* response(), reached with a body; the 400 and the 404 returned before it.
withNewHeaders(res, custom) ==
    IF res.status = 200 THEN [res EXCEPT !.headers = newHeaders(custom)] ELSE res

-----------------------------------------------------------------------------
(* sampled.ts: sampledUrls, sampledPaths and findFirstMatches.  The sitemap *)
(* document is the body of a Response of response(), the routes are the    *)
(* +page.svelte files of the application.                                  *)

\* The characters of the origin of the sitemap, 'https://example.com'.
OriginChars ==
    <<"h", "t", "t", "p", "s", ":", "/", "/", "e", "x", "a", "m", "p", "l", "e",
      ".", "c", "o", "m">>

\* The string of a URL of the sitemap: its origin, then its path.
urlText(url) == OriginChars \o Tail(url)

\* new URL(url).origin
originOf(url) == Head(url)

\* new URL(url).pathname
pathnameOf(url) == Tail(url)

\* /\[.*\]/.test(route)
isDynamicRoute(route) ==
    \E i \in DOMAIN route : \E j \in (i + 1)..Len(route) :
        route[i] = "[" /\ route[j] = "]"

\* '([^/]+)' in a pattern: one or more characters other than '/'.
Wildcard == "([^/]+)"

\* path.replace(/\[[^\]]+\]/g, '([^/]+)'): a match begins at a '[' that is
\* followed by at least one character other than ']' and ends at the first
\* ']' after it.  Every other character of a route stands for itself in the
\* regular expression.
RECURSIVE toRegexPattern(_)
toRegexPattern(path) ==
    Bind(path, LAMBDA str :
        IF str = <<>> THEN <<>>
        ELSE IF /\ str[1] = "[" /\ Len(str) >= 3 /\ str[2] # "]"
                /\ \E k \in 3..Len(str) : str[k] = "]"
        THEN Bind(CHOOSE k \in 3..Len(str) :
                     str[k] = "]" /\ \A j \in 3..(k - 1) : str[j] # "]", LAMBDA close :
                 <<Wildcard>> \o toRegexPattern(SubSeq(str, close + 1, Len(str))))
        ELSE <<str[1]>> \o toRegexPattern(Tail(str)))

\* The pattern matches the text from the 1-based position i on.
RECURSIVE matchesAt(_, _, _)
matchesAt(pattern, text, i) ==
    IF pattern = <<>> THEN TRUE
    ELSE IF Head(pattern) = Wildcard
    THEN \E n \in 1..(Len(text) - i + 1) :
            /\ \A k \in i..(i + n - 1) : text[k] # "/"
            /\ matchesAt(Tail(pattern), text, i + n)
    ELSE /\ i <= Len(text)
         /\ text[i] = Head(pattern)
         /\ matchesAt(Tail(pattern), text, i + 1)

\* new RegExp(pattern).test(needle): a match may begin anywhere.
patternTest(pattern, url) ==
    \E text \in { urlText(url) } :
        \E i \in 1..(Len(text) + 1) : matchesAt(pattern, text, i)

\* The loop over the needles without its `break`: every needle a pattern
\* matches is collected.
findEveryMatch(regexPatterns, haystack) ==
    uniqueInOrder(SelectSeq(haystack, LAMBDA needle :
        \E m \in DOMAIN regexPatterns : patternTest(regexPatterns[m], needle)))

\* findFirstMatches: for each pattern the first needle it matches, if any,
\* in a Set.
findFirstMatches(regexPatterns, haystack) ==
    LET hits(pattern) == { k \in DOMAIN haystack : patternTest(pattern, haystack[k]) }
        matching == SelectSeq(regexPatterns, LAMBDA pattern : hits(pattern) # {})
    IN  uniqueInOrder([m \in DOMAIN matching |->
                          haystack[CHOOSE k \in hits(matching[m]) :
                                      \A j \in hits(matching[m]) : k <= j]])

\* import.meta.glob('/src/routes/**/+page.svelte')
pageSvelteFiles(routeFiles) ==
    SelectSeq(routeFiles, LAMBDA file : endsWith(file, <<"/", "+", "p", "a", "g", "e", ".", "s", "v", "e", "l", "t", "e">>))

\* sampledUrls(sitemapXml).  XMLParser gives an array for `url` only when
\* the document has two <url> or more, and no urlset for a sitemap index:
\* `sitemap.urlset.url.map` throws otherwise.
sampledUrls(body, routeFiles) ==
    IF body.kind # "urlset" \/ Len(body.urls) < 2
    THEN [kind |-> "threw", urls |-> <<>>]
    ELSE
    Bind([k \in DOMAIN body.urls |-> body.urls[k].loc], LAMBDA urls :
    Bind(filterRoutes(pageSvelteFiles(routeFiles), <<>>), LAMBDA routes :
    Bind(SelectSeq(routes, LAMBDA route : ~isDynamicRoute(route)), LAMBDA staticRoutes :
    Bind(SelectSeq(routes, isDynamicRoute), LAMBDA dynamicRoutes :
    Bind(uniqueInOrder([k \in DOMAIN staticRoutes |->
                          Url(originOf(urls[1]), staticRoutes[k])]), LAMBDA staticRouteUrls :
    Bind(SelectSeq(urls, LAMBDA url : ~includes(staticRouteUrls, url)), LAMBDA dynamicRouteUrls :
    Bind(uniqueInOrder([k \in DOMAIN dynamicRoutes |->
                          toRegexPattern(dynamicRoutes[k])]), LAMBDA regexPatterns :
    Bind(findFirstMatches(regexPatterns, dynamicRouteUrls), LAMBDA sampledDynamicUrls :
        [kind |-> "returned",
         urls |-> sortDefault(staticRouteUrls \o sampledDynamicUrls)]))))))))

\* sampledPaths(sitemapXml)
sampledPaths(body, routeFiles) ==
    Bind(sampledUrls(body, routeFiles), LAMBDA res :
        [kind  |-> res.kind,
         urls  |-> res.urls,
         paths |-> [k \in DOMAIN res.urls |-> pathnameOf(res.urls[k])]])

-----------------------------------------------------------------------------
(* The inputs: the route files of the application and the sitemap config.  *)

MaxRoutes == 2      \* route files in the application
MaxPatterns == 1    \* entries of excludeRoutePatterns
MaxKeys == 2        \* keys of paramValues
MaxPerPage == 2     \* an explicit config.maxPerPage is in 1..MaxPerPage
MaxSegments == 4     \* segments of a route with optional parameters
MaxSampleRoutes == 3 \* route files of a sampled application
MaxAdditional == 1  \* entries of additionalPaths

DefaultMaxPerPage == 50000

Origin == "https://example.com"

SrcRoutes == <<"/", "s", "r", "c", "/", "r", "o", "u", "t", "e", "s">>
PageSvelte == <<"/", "+", "p", "a", "g", "e", ".", "s", "v", "e", "l", "t", "e">>
PageAtSvelte == <<"/", "+", "p", "a", "g", "e", "@", ".", "s", "v", "e", "l", "t", "e">>
PageMd == <<"/", "+", "p", "a", "g", "e", ".", "m", "d">>
PageSvx == <<"/", "+", "p", "a", "g", "e", ".", "s", "v", "x">>

\* The key import.meta.glob reports for the page file of a route directory.
RouteFile(dir, pageFile) == SrcRoutes \o dir \o pageFile

\* The route files an application can have.
RouteUniverse ==
    {
      \* (the root)
      RouteFile(<<>>, PageSvelte),
      \* /(s)/a
      RouteFile(<<"/", "(", "s", ")", "/", "a">>, PageAtSvelte),
      \* /b/[x]
      RouteFile(<<"/", "b", "/", "[", "x", "]">>, PageSvelte),
      \* /c/[x]/[y]
      RouteFile(<<"/", "c", "/", "[", "x", "]", "/", "[", "y", "]">>, PageSvelte),
      \* /d/[[p]]/[[q]]
      RouteFile(<<"/", "d", "/", "[", "[", "p", "]", "]", "/", "[", "[", "q", "]", "]">>, PageSvelte),
      \* /d
      RouteFile(<<"/", "d">>, PageMd),
      \* /(s)/[[lang]]/e
      RouteFile(<<"/", "(", "s", ")", "/", "[", "[", "l", "a", "n", "g", "]", "]", "/", "e">>, PageSvelte),
      \* /[[lang]]/f/[x]
      RouteFile(<<"/", "[", "[", "l", "a", "n", "g", "]", "]", "/", "f", "/", "[", "x", "]">>, PageSvx),
      \* /[lang=m]/h/[[p]]
      RouteFile(<<"/", "[", "l", "a", "n", "g", "=", "m", "]", "/", "h", "/", "[", "[", "p", "]", "]">>, PageSvelte),
      \* /[[p]]
      RouteFile(<<"/", "[", "[", "p", "]", "]">>, PageSvelte),
      \* /k/[[p]]/m
      RouteFile(<<"/", "k", "/", "[", "[", "p", "]", "]", "/", "m">>, PageSvelte)
    }

\* The exclusion patterns a config can list: the regular expression in the
\* comment, as the literal text it matches and its anchors.
PatternUniverse ==
    {
      \* '(s)'
      [atStart |-> FALSE, atEnd |-> FALSE, lit |-> <<"s">>],
      \* '/d$'
      [atStart |-> FALSE, atEnd |-> TRUE, lit |-> <<"/", "d">>],
      \* '.*/d/\[\[p\]\]$'
      [atStart |-> FALSE, atEnd |-> TRUE, lit |-> <<"/", "d", "/", "[", "[", "p", "]", "]">>],
      \* '/d/\[\[p\]\]/\[\[q\]\]$'
      [atStart |-> FALSE, atEnd |-> TRUE, lit |-> <<"/", "d", "/", "[", "[", "p", "]", "]", "/", "[", "[", "q", "]", "]">>],
      \* '^/b.*'
      [atStart |-> TRUE, atEnd |-> FALSE, lit |-> <<"/", "b">>],
      \* '.*\[x\].*'
      [atStart |-> FALSE, atEnd |-> FALSE, lit |-> <<"[", "x", "]">>]
    }

\* A paramValues key for a route that never existed: '/z/[x]'.
OldRoute == <<"/", "z", "/", "[", "x", "]">>

\* The value lists a paramValues key can hold: string[], string[][],
\* ParamValue[] and the empty list.
StringItem(str) ==
    [kind |-> "string", str |-> str, values |-> <<>>, lastmod |-> "undefined",
     changefreq |-> "undefined", priority |-> "undefined"]

ArrayItem(values) ==
    [kind |-> "array", str |-> <<>>, values |-> values, lastmod |-> "undefined",
     changefreq |-> "undefined", priority |-> "undefined"]

ObjectItem(values, lastmod, changefreq, priority) ==
    [kind |-> "object", str |-> <<>>, values |-> values, lastmod |-> lastmod,
     changefreq |-> changefreq, priority |-> priority]

ItemLists ==
    { <<>>,
      << StringItem(<<"v">>), StringItem(<<"w">>) >>,
      << ArrayItem(<< <<"v">>, <<"w">> >>), ArrayItem(<< <<"y">>, <<"z">> >>) >>,
      << ObjectItem(<< <<"v">>, <<"w">> >>, "2025-01-01", "daily", "0.0"),
         ObjectItem(<< <<"y">>, <<"z">> >>, "undefined", "undefined", "undefined") >> }

\* config.lang: undefined, without alternates, with two alternates.
NoLang == [default |-> <<>>, alternates |-> <<>>]

LangConfigs ==
    { NoLang,
      [default |-> <<"e", "n">>, alternates |-> <<>>],
      [default |-> <<"e", "n">>, alternates |-> << <<"d", "e">>, <<"z", "h">> >>] }

\* config.defaultChangefreq and config.defaultPriority.
NoDefaults == [changefreq |-> "undefined", priority |-> "undefined"]

DefaultsChoices == { NoDefaults, [changefreq |-> "weekly", priority |-> "0.7"] }

\* Entries of additionalPaths: '/e' and 't' (no leading slash).
AdditionalUniverse == { <<"/", "e">>, <<"t">> }

SortChoices == { "false", "alpha" }

\* config.processPaths: not given, the callback of the sample route, or a
\* callback that appends the paths of an external sitemap.
ProcessPathsChoices == { "undefined", "addTrailingSlashes", "appendExternal" }

\* config.page: not given, or one of these strings.
NoPage == [given |-> FALSE, str |-> <<>>]

PageStrings ==
    { <<>>, <<"0">>, <<"1">>, <<"2">>, <<"3">>, <<"4">>, <<"1", "0">>, <<"0", "1">>,
      <<"-", "1">>, <<"1", ".", "5">>, <<"x">> }

PageChoices == { NoPage } \cup { [given |-> TRUE, str |-> str] : str \in PageStrings }

MaxPerPageChoices == (1..MaxPerPage) \cup { DefaultMaxPerPage }

\* The sequences of at most n distinct elements of S.
RECURSIVE DistinctSeqs(_, _)
DistinctSeqs(S, n) ==
    Bind(S, LAMBDA elems :
        IF n = 0 THEN { <<>> }
        ELSE Bind(DistinctSeqs(elems, n - 1), LAMBDA shorter :
                 shorter \cup UNION { { Append(q, x) : x \in elems \ Range(q) } :
                                        q \in { r \in shorter : Len(r) = n - 1 } }))

\* The elements of a set, in some fixed order.
RECURSIVE SetToSeq(_)
SetToSeq(S) ==
    IF S = {} THEN <<>>
    ELSE LET x == CHOOSE y \in S : TRUE IN <<x>> \o SetToSeq(S \ {x})

\* The sets of at most n elements of S.
SubsetsUpTo(S, n) == { T \in SUBSET S : Cardinality(T) <= n }

\* What import.meta.glob reports: the files of the application, in order.
RouteLists == { sortDefault(SetToSeq(T)) : T \in SubsetsUpTo(RouteUniverse, MaxRoutes) }

PatternLists == { SetToSeq(T) : T \in SubsetsUpTo(PatternUniverse, MaxPatterns) }

AdditionalLists == DistinctSeqs(AdditionalUniverse, MaxAdditional)

\* The keys a config may hold for an application: its tokenized routes, also
\* the ones an exclusion pattern removes, and a route that never existed.
tokenized(route) == hasAnyToken(replaceMatch(route, langRegex(route), <<>>))

CandidateKeys(routes) ==
    { r \in Range(processRoutesForOptionalParams(filterRoutes(routes, <<>>))) :
        tokenized(r) } \cup { OldRoute }

AnyKeys(routes) == DistinctSeqs(CandidateKeys(routes), MaxKeys)

\* The one key list that names every tokenized route left, in route order.
AllKeys(processed) == { SelectSeq(processed, tokenized) }

\* The key lists of a config: any of them, or the one that resolves every route.
KeyLists(which, routes, processed) ==
    IF which = "any" THEN AnyKeys(routes) ELSE AllKeys(processed)

\* The paramValues over a list of keys.  The value lists of a config whose
\* keys are rejected are never read: they stay empty.
ParamValuesOver(keys, processed, itemLists) ==
    { [k \in DOMAIN keys |-> [key |-> keys[k], items |-> items[k]]] :
        items \in IF \E k \in DOMAIN keys : keys[k] \notin Range(processed)
                  THEN { [k \in DOMAIN keys |-> <<>>] }
                  ELSE [DOMAIN keys -> itemLists] }

-----------------------------------------------------------------------------
(* response(), statement by statement.  The config is an immutable input:  *)
(* each of its fields takes its value at the statement that first reads it, *)
(* drawn from the set the step is given.                                   *)

\* sampledUrls() has not been called.
NotSampled == [kind |-> "pending", urls |-> <<>>, paths |-> <<>>]

Pending ==
    [kind |-> "pending", status |-> 0, error |-> "", headers |-> <<>>,
     body |-> [kind |-> "none", urls |-> <<>>, sitemaps |-> <<>>, text |-> ""]]

InitWith(routeLists, origins) ==
    /\ pc = "response"
    /\ allRoutes \in routeLists
    /\ origin \in origins
    /\ lang = NoLang
    /\ paramValues = <<>>
    /\ defaults = NoDefaults
    /\ additionalPaths = <<>>
    /\ sort = "false"
    /\ processPaths = "undefined"
    /\ maxPerPage = DefaultMaxPerPage
    /\ headers = <<>>
    /\ sampled = NotSampled
    /\ filteredRoutes = <<>>
    /\ processedRoutes = <<>>
    /\ pathsWithLang = <<>>
    /\ pathsWithoutLang = <<>>
    /\ generated = <<>>
    /\ paths = <<>>
    /\ result = Pending

\* A faulty test of the origin: the empty string passes.
originUndefinedOnly(org) == org = "undefined"

\* !origin: the property is not given, or it is the empty string.
originMissing(org) == org \in { "undefined", "" }

\* A faulty response(): the page of the request is read before the config.
CheckPageFirst ==
    /\ pc = "response"
    /\ IF page.given /\ page.str # <<>> /\ ~isPageNumber(page.str)
       THEN /\ result' = Response(400, textBody("Invalid page param"))
            /\ pc' = "done"
       ELSE IF originMissing(origin)
       THEN /\ result' = Threw("origin property is required")
            /\ pc' = "done"
       ELSE /\ pc' = "generatePaths"
            /\ UNCHANGED result
    /\ UNCHANGED <<allRoutes, origin, lang, excludeRoutePatterns, paramValues,
                   defaults, additionalPaths, sort, processPaths, maxPerPage, page,
                   filteredRoutes, processedRoutes, pathsWithLang,
                   pathsWithoutLang, generated, paths,
                   headers, sampled>>

\* response: if (!origin) throw
CheckOrigin ==
    /\ pc = "response"
    /\ IF originMissing(origin)
       THEN /\ result' = Threw("origin property is required")
            /\ pc' = "done"
       ELSE /\ pc' = "generatePaths"
            /\ UNCHANGED result
    /\ UNCHANGED <<allRoutes, origin, lang, excludeRoutePatterns, paramValues,
                   defaults, additionalPaths, sort, processPaths, maxPerPage, page,
                   filteredRoutes, processedRoutes, pathsWithLang,
                   pathsWithoutLang, generated, paths,
                   headers, sampled>>

\* generatePaths: route.match(langRegex)?.length for one route of allRoutes.
routesContainLangParam(routes) ==
    \E k \in DOMAIN routes : langRegex(routes[k]).found

\* A faulty test of the lang config: it reads lang.default only.
langDefaultMissing(langConfig) == langConfig.default = <<>>

\* !lang?.default || !lang?.alternates.length
langConfigMissing(langConfig) ==
    langConfig.default = <<>> \/ Len(langConfig.alternates) = 0

\* A faulty generatePaths: the lang config is validated for the routes that
\* the exclusion patterns leave.
CheckLangOfFiltered(langConfigs) ==
    /\ pc = "generatePaths"
    /\ IF routesContainLangParam(filterRoutes(allRoutes, excludeRoutePatterns))
       THEN \E l \in langConfigs :
              /\ lang' = l
              /\ IF langConfigMissing(l)
                 THEN /\ result' = Threw("Must specify lang property")
                      /\ pc' = "done"
                 ELSE /\ pc' = "filterRoutes"
                      /\ UNCHANGED result
       ELSE /\ pc' = "filterRoutes"
            /\ UNCHANGED <<lang, result>>
    /\ UNCHANGED <<allRoutes, origin, excludeRoutePatterns, paramValues,
                   defaults, additionalPaths, sort, processPaths, maxPerPage, page,
                   filteredRoutes, processedRoutes, pathsWithLang,
                   pathsWithoutLang, generated, paths, headers, sampled>>

\* generatePaths: the validation of the lang config, read only when a route
\* holds a language token.
CheckLang(langConfigs) ==
    /\ pc = "generatePaths"
    /\ IF routesContainLangParam(allRoutes)
       THEN \E l \in langConfigs :
              /\ lang' = l
              /\ IF langConfigMissing(l)
                 THEN /\ result' = Threw("Must specify lang property")
                      /\ pc' = "done"
                 ELSE /\ pc' = "filterRoutes"
                      /\ UNCHANGED result
       ELSE /\ pc' = "filterRoutes"
            /\ UNCHANGED <<lang, result>>
    /\ UNCHANGED <<allRoutes, origin, excludeRoutePatterns, paramValues,
                   defaults, additionalPaths, sort, processPaths, maxPerPage, page,
                   filteredRoutes, processedRoutes, pathsWithLang,
                   pathsWithoutLang, generated, paths,
                   headers, sampled>>

\* generatePaths: filterRoutes, then processRoutesForOptionalParams.
FilterRoutes(patternLists) ==
    /\ pc = "filterRoutes"
    /\ \E patterns \in patternLists :
         /\ excludeRoutePatterns' = patterns
         /\ filteredRoutes' = filterRoutes(allRoutes, patterns)
    /\ processedRoutes' = processRoutesForOptionalParams(filteredRoutes')
    /\ pc' = "generatePathsWithParamValues"
    /\ UNCHANGED <<allRoutes, origin, lang, paramValues, defaults,
                   additionalPaths, sort, processPaths, maxPerPage, page, pathsWithLang,
                   pathsWithoutLang, generated, paths, result,
                   headers, sampled>>

\* generatePaths: generatePathsWithParamValues, then processPathsWithLang and
\* the returned list.
GeneratePathsWithParamValues(which, itemLists, defaultsChoices) ==
    /\ pc = "generatePathsWithParamValues"
    /\ \E keys \in KeyLists(which, allRoutes, processedRoutes), dflt \in defaultsChoices :
         \E entries \in ParamValuesOver(keys, processedRoutes, itemLists) :
           \E bound \in { generatePathsWithParamValues(processedRoutes, entries, dflt) } :
               /\ paramValues' = entries
               /\ defaults' = dflt
               /\ IF bound.threw
                  THEN /\ result' = Threw(bound.error)
                       /\ pc' = "done"
                       /\ UNCHANGED <<pathsWithLang, pathsWithoutLang, generated>>
                  ELSE /\ pathsWithLang' = bound.pathsWithLang
                       /\ pathsWithoutLang' = bound.pathsWithoutLang
                       /\ generated' = bound.pathsWithoutLang
                                         \o processPathsWithLang(bound.pathsWithLang, lang)
                       /\ pc' = "assemble"
                       /\ UNCHANGED result
    /\ UNCHANGED <<allRoutes, origin, lang, excludeRoutePatterns,
                   additionalPaths, sort, processPaths, maxPerPage, page, filteredRoutes,
                   processedRoutes, paths,
                   headers, sampled>>

\* The processPaths callback of the sample route: a trailing slash on every
\* path and on the path of every alternate.
addTrailingSlashes(pathObjs) ==
    [k \in DOMAIN pathObjs |->
        [pathObjs[k] EXCEPT
            !.path = @ \o <<"/">>,
            !.alternates = [a \in DOMAIN @ |-> [@[a] EXCEPT !.path = @ \o <<"/">>]]]]

\* A processPaths callback that appends the one path of an external sitemap,
\* '/e', with its lastmod.
appendExternal(pathObjs) ==
    Append(pathObjs, PathObj(<<"/", "e">>, "undefined", "2024-06-01", "undefined", <<>>))

\* if (processPaths) paths = processPaths(paths)
applyProcessPaths(callback, pathObjs) ==
    IF callback = "undefined" THEN pathObjs
    ELSE IF callback = "addTrailingSlashes" THEN addTrailingSlashes(pathObjs)
    ELSE appendExternal(pathObjs)

\* A faulty order: the duplicates are removed before processPaths runs.
assembleDedupFirst(generatedPaths, additional, dflt, callback, srt) ==
    Bind(deduplicatePaths(generatedPaths \o generateAdditionalPaths(additional, dflt)), LAMBDA deduped :
    Bind(applyProcessPaths(callback, deduped), LAMBDA processed :
        IF srt = "alpha" THEN sortAlpha(processed) ELSE processed))

\* response: the additional paths, processPaths, deduplicatePaths and the sort.
assemble(generatedPaths, additional, dflt, callback, srt) ==
    Bind(generatedPaths \o generateAdditionalPaths(additional, dflt), LAMBDA all :
    Bind(applyProcessPaths(callback, all), LAMBDA processed :
    Bind(deduplicatePaths(processed), LAMBDA deduped :
        IF srt = "alpha" THEN sortAlpha(deduped) ELSE deduped)))

Assemble(additionalLists, callbacks, sortChoices) ==
    /\ pc = "assemble"
    /\ \E additional \in additionalLists, callback \in callbacks, srt \in sortChoices :
         /\ additionalPaths' = additional
         /\ processPaths' = callback
         /\ sort' = srt
         /\ paths' = assemble(generated, additional, defaults, callback, srt)
    /\ pc' = "paginate"
    /\ UNCHANGED <<allRoutes, origin, lang, excludeRoutePatterns, paramValues,
                   defaults, maxPerPage, page, filteredRoutes, processedRoutes,
                   pathsWithLang, pathsWithoutLang, generated, result,
                   headers, sampled>>

\* response: totalPages, the body and the Response.
Paginate(perPageChoices, pageChoices, headerLists) ==
    /\ pc = "paginate"
    /\ \E perPage \in perPageChoices, pg \in pageChoices, custom \in headerLists :
         /\ maxPerPage' = perPage
         /\ page' = pg
         /\ headers' = custom
         /\ result' = withNewHeaders(paginate(origin, paths, perPage, pg), custom)
    /\ pc' = "done"
    /\ UNCHANGED <<allRoutes, origin, lang, excludeRoutePatterns, paramValues,
                   defaults, additionalPaths, sort, processPaths, filteredRoutes,
                   processedRoutes, pathsWithLang, pathsWithoutLang, generated,
                   paths, sampled>>

\* sampledUrls and sampledPaths, given the text of a Response of status 200.
SampledUrls ==
    /\ pc = "done"
    /\ result.kind = "response" /\ result.status = 200
    /\ sampled' = sampledPaths(result.body, allRoutes)
    /\ pc' = "sampled"
    /\ UNCHANGED <<allRoutes, origin, lang, excludeRoutePatterns, paramValues,
                   defaults, additionalPaths, sort, processPaths, maxPerPage, page,
                   filteredRoutes, processedRoutes, pathsWithLang,
                   pathsWithoutLang, generated, paths, result, headers>>

\* Every application and every config of the bounds above, asked for the
\* whole sitemap with the default page size.
Init ==
    /\ InitWith(RouteLists, { "", Origin })
    /\ excludeRoutePatterns = <<>>
    /\ page = NoPage

Next ==
    \/ CheckOrigin
    \/ CheckLang(LangConfigs)
    \/ FilterRoutes(PatternLists)
    \/ GeneratePathsWithParamValues("any", ItemLists, DefaultsChoices)
    \/ Assemble(AdditionalLists, { "undefined" }, SortChoices)
    \/ Paginate({ DefaultMaxPerPage }, { NoPage }, { <<>> })

Spec == Init /\ [][Next]_vars

\* Every application, with a config that resolves each of its routes with a
\* list of tuples, asked for every page and with every page size.
TupleLists == { << ArrayItem(<< <<"v">>, <<"w">> >>), ArrayItem(<< <<"y">>, <<"z">> >>) >> }

InitPages ==
    /\ InitWith(RouteLists, { Origin })
    /\ excludeRoutePatterns = <<>>
    /\ page = NoPage

NextPages ==
    \/ CheckOrigin
    \/ CheckLang(LangConfigs)
    \/ FilterRoutes({ <<>> })
    \/ GeneratePathsWithParamValues("all", TupleLists, { NoDefaults })
    \/ Assemble(AdditionalLists, ProcessPathsChoices, SortChoices)
    \/ Paginate(MaxPerPageChoices, PageChoices, { <<>> })

SpecPages == InitPages /\ [][NextPages]_vars

\* The route files of an application in several languages: the language
\* token optional or required, with or without a matcher, alone or before
\* other segments, next to routes without it.
LangRouteUniverse ==
    {
      \* /[[lang]]
      RouteFile(<<"/", "[", "[", "l", "a", "n", "g", "]", "]">>, PageSvelte),
      \* /[[lang=m]]/g
      RouteFile(<<"/", "[", "[", "l", "a", "n", "g", "=", "m", "]", "]", "/", "g">>, PageSvelte),
      \* /(s)/[[lang]]/e
      RouteFile(<<"/", "(", "s", ")", "/", "[", "[", "l", "a", "n", "g", "]", "]", "/", "e">>, PageSvelte),
      \* /[[lang]]/f/[x]
      RouteFile(<<"/", "[", "[", "l", "a", "n", "g", "]", "]", "/", "f", "/", "[", "x", "]">>, PageSvx),
      \* /[lang]/n
      RouteFile(<<"/", "[", "l", "a", "n", "g", "]", "/", "n">>, PageMd),
      \* /[lang=m]/h/[[p]]
      RouteFile(<<"/", "[", "l", "a", "n", "g", "=", "m", "]", "/", "h", "/", "[", "[", "p", "]", "]">>, PageSvelte),
      \* /(s)/a
      RouteFile(<<"/", "(", "s", ")", "/", "a">>, PageAtSvelte),
      \* /b/[x]
      RouteFile(<<"/", "b", "/", "[", "x", "]">>, PageSvelte)
    }

LangRouteLists ==
    { sortDefault(SetToSeq(T)) : T \in SubsetsUpTo(LangRouteUniverse, MaxRoutes) }

\* config.lang, also with alternates and no default.
AllLangConfigs ==
    LangConfigs \cup { [default |-> <<>>, alternates |-> << <<"d", "e">> >>] }

\* additionalPaths, also with a path in upper case: '/B'.
AllAdditionalLists == DistinctSeqs(AdditionalUniverse \cup { <<"/", "B">> }, MaxAdditional)

\* Every application in several languages, with a config that resolves each
\* of its routes, asked for the whole sitemap with the default page size.
InitLang ==
    /\ InitWith(LangRouteLists, { Origin })
    /\ excludeRoutePatterns = <<>>
    /\ page = NoPage

NextLang ==
    \/ CheckOrigin
    \/ CheckLang(AllLangConfigs)
    \/ FilterRoutes({ <<>> })
    \/ GeneratePathsWithParamValues("all", ItemLists, DefaultsChoices)
    \/ Assemble(AllAdditionalLists, { "undefined" }, SortChoices)
    \/ Paginate({ DefaultMaxPerPage }, { NoPage }, { <<>> })

SpecLang == InitLang /\ [][NextLang]_vars

\* config.headers: not given, a header of its own, a default under another
\* case, one more header next to it, the same name under two cases.
Header(name, value) == [name |-> name, value |-> value]

HeaderLists ==
    { <<>>,
      << Header(<<"x", "-", "a">>, "mars") >>,
      << Header(<<"C", "a", "c", "h", "e", "-", "C", "o", "n", "t", "r", "o", "l">>,
                "no-cache") >>,
      << Header(<<"x", "-", "a">>, "mars"),
         Header(<<"c", "a", "c", "h", "e", "-", "c", "o", "n", "t", "r", "o", "l">>,
                "no-store") >>,
      << Header(<<"C", "o", "n", "t", "e", "n", "t", "-", "T", "y", "p", "e">>,
                "text/xml"),
         Header(<<"c", "o", "n", "t", "e", "n", "t", "-", "t", "y", "p", "e">>,
                "application/rss+xml") >> }

\* config.origin: not given, empty, or the origin of the site.
Origins == { "undefined", "", Origin }

\* config.excludeRoutePatterns for the routes with a language token: none,
\* 'lang', which matches each of them, and '^/\[\[lang', which matches the
\* ones that begin with the optional token.
RequestPatternLists ==
    { <<>>,
      << [atStart |-> FALSE, atEnd |-> FALSE, lit |-> <<"l", "a", "n", "g">>] >>,
      << [atStart |-> TRUE, atEnd |-> FALSE,
          lit |-> <<"/", "[", "[", "l", "a", "n", "g">>] >> }

\* Every request of every application in several languages: the origin, the
\* exclusion patterns and the page are the ones of the request from its
\* start, the config may miss its origin, its lang, a route, or hold a key
\* of no route.
InitRequests ==
    /\ InitWith(LangRouteLists, Origins)
    /\ excludeRoutePatterns \in RequestPatternLists
    /\ page \in PageChoices

NextRequests ==
    \/ CheckOrigin
    \/ CheckLang(AllLangConfigs)
    \/ FilterRoutes({ excludeRoutePatterns })
    \/ GeneratePathsWithParamValues("any", TupleLists, { NoDefaults })
    \/ Assemble({ <<>> }, { "undefined" }, { "false" })
    \/ Paginate(MaxPerPageChoices, { page }, HeaderLists)

SpecRequests == InitRequests /\ [][NextRequests]_vars

\* The segments of a route directory: fixed, a required token, optional
\* tokens, the optional language token.
OptionalLangSegment == <<"[", "[", "l", "a", "n", "g", "]", "]">>

RouteSegments ==
    { <<"k">>, <<"m">>, <<"[", "x", "]">>, <<"[", "[", "p", "]", "]">>,
      <<"[", "[", "q", "]", "]">>, OptionalLangSegment }

\* The required language token with a matcher, as a first segment.
RequiredLang == <<"[", "l", "a", "n", "g", "=", "m", "]">>

\* The directory of a list of segments: '' for the root.
DirOf(segments) == Flatten([k \in DOMAIN segments |-> <<"/">> \o segments[k]])

\* Every route directory of at most MaxSegments different segments, with at
\* most one language token, each as the one +page.svelte of an application.
SegmentRouteLists ==
    Bind(DistinctSeqs(RouteSegments, MaxSegments), LAMBDA dirs :
        { << RouteFile(DirOf(d), PageSvelte) >> : d \in dirs }
          \cup { << RouteFile(DirOf(<<RequiredLang>> \o d), PageSvelte) >> :
                   d \in { e \in dirs : OptionalLangSegment \notin Range(e) } })

\* Every application of one route, with a config that resolves its route.
InitSegments ==
    /\ InitWith(SegmentRouteLists, { Origin })
    /\ excludeRoutePatterns = <<>>
    /\ page = NoPage

NextSegments ==
    \/ CheckOrigin
    \/ CheckLang(LangConfigs)
    \/ FilterRoutes({ <<>> })
    \/ GeneratePathsWithParamValues("all", TupleLists, { NoDefaults })
    \/ Assemble({ <<>> }, { "undefined" }, { "false" })
    \/ Paginate({ DefaultMaxPerPage }, { NoPage }, { <<>> })

SpecSegments == InitSegments /\ [][NextSegments]_vars

\* The route files of an application whose sitemap is sampled: static routes,
\* one of them with a layout reset, routes with one and two parameters, with
\* a matcher, with an optional parameter and with the language token.
SampleRouteUniverse ==
    {
      \* (the root)
      RouteFile(<<>>, PageSvelte),
      \* /(s)/a
      RouteFile(<<"/", "(", "s", ")", "/", "a">>, PageAtSvelte),
      \* /d
      RouteFile(<<"/", "d">>, PageSvelte),
      \* /b/[x]
      RouteFile(<<"/", "b", "/", "[", "x", "]">>, PageSvelte),
      \* /b/[y=m]
      RouteFile(<<"/", "b", "/", "[", "y", "=", "m", "]">>, PageSvelte),
      \* /c/[x]/[y]
      RouteFile(<<"/", "c", "/", "[", "x", "]", "/", "[", "y", "]">>, PageSvelte),
      \* /[x]
      RouteFile(<<"/", "[", "x", "]">>, PageSvelte),
      \* /d/[[p]]
      RouteFile(<<"/", "d", "/", "[", "[", "p", "]", "]">>, PageSvelte),
      \* /(s)/[[lang]]/e
      RouteFile(<<"/", "(", "s", ")", "/", "[", "[", "l", "a", "n", "g", "]", "]", "/", "e">>, PageSvelte)
    }

SampleRouteLists ==
    { sortDefault(SetToSeq(T)) : T \in SubsetsUpTo(SampleRouteUniverse, MaxSampleRoutes) }

\* paramValues of a sampled application: two tuples per key, or none.
SampleItemLists == TupleLists \cup { <<>> }

\* Every application of these routes, with a config that resolves each of
\* its routes, asked for the whole sitemap, which is then sampled.
InitSampled ==
    /\ InitWith(SampleRouteLists, { Origin })
    /\ excludeRoutePatterns = <<>>
    /\ page = NoPage

NextSampled ==
    \/ CheckOrigin
    \/ CheckLang(LangConfigs)
    \/ FilterRoutes(PatternLists)
    \/ GeneratePathsWithParamValues("all", SampleItemLists, { NoDefaults })
    \/ Assemble(AdditionalLists, { "undefined" }, SortChoices)
    \/ Paginate({ DefaultMaxPerPage }, { NoPage }, { <<>> })
    \/ SampledUrls

SpecSampled == InitSampled /\ [][NextSampled]_vars

-----------------------------------------------------------------------------
(* Properties of the generation of paths (specification Spec).             *)

\* The positions of the language token of a route.
LangSpan(route) ==
    LET m == langRegexNoPath(route)
    IN  IF m.found THEN (m.index + 1)..(m.index + Len(m.text)) ELSE {}

\* The route holds a [x] or [[x]] token other than the language token.
HoldsParamToken(route) ==
    \E i \in DOMAIN route : route[i] = "[" /\ i \notin LangSpan(route)

HasKey(route) == \E e \in DOMAIN paramValues : paramValues[e].key = route

\* generatePathsWithParamValues has run.
Generated == pc \in { "assemble", "paginate", "done" } /\ processedRoutes # <<>>

UnresolvedRoute ==
    \E k \in DOMAIN processedRoutes :
        HoldsParamToken(processedRoutes[k]) /\ ~HasKey(processedRoutes[k])

StaleKey ==
    \E e \in DOMAIN paramValues : paramValues[e].key \notin Range(processedRoutes)

NothingReturned ==
    /\ result.kind = "threw"
    /\ pc = "done"
    /\ pathsWithLang = <<>> /\ pathsWithoutLang = <<>>
    /\ generated = <<>> /\ paths = <<>>

\* C1: when a route left by the exclusion patterns and by the expansion of
\* optional parameters holds a token other than the language token and
\* paramValues has no key for it, response throws: no path is returned, no
\* Response is built, and the route is not dropped in silence.
C1_UnresolvedTokenThrows == (Generated /\ UnresolvedRoute) => NothingReturned

\* A config that resolves one tokenized route and forgets another.
C1_Witness ==
    /\ Generated /\ UnresolvedRoute /\ ~StaleKey
    /\ paramValues # <<>>
    /\ result.kind = "threw" /\ result.error = "paramValues not provided"

\* C2: when paramValues holds a key that is none of the routes left by the
\* exclusion patterns and by the expansion of optional parameters, response
\* throws the error of the stale key and no path has been generated for any
\* key.
C2_StaleKeyThrows ==
    (Generated /\ StaleKey) =>
        /\ NothingReturned
        /\ result.error = "paramValues for a route that does not exist"

\* A config with a good key first and then the key of a route that an
\* exclusion pattern removed.
C2_Witness ==
    /\ Generated /\ StaleKey
    /\ Len(paramValues) = 2
    /\ paramValues[1].key \in Range(processedRoutes)
    /\ paramValues[2].key # OldRoute
    /\ excludeRoutePatterns # <<>>
    /\ result.kind = "threw"

-----------------------------------------------------------------------------
(* Properties of the pagination (specification SpecPages).                 *)

\* response() returned a Response.
Responded == pc = "done" /\ result.kind = "response"

\* The <url> records of the assembled list, in order.
Records == [k \in DOMAIN paths |-> urlElement(origin, paths[k])]

\* The least number of pages of maxPerPage records that hold every record.
TotalPages ==
    CHOOSE n \in 0..Len(paths) :
        /\ n * maxPerPage >= Len(paths)
        /\ n > 0 => (n - 1) * maxPerPage < Len(paths)

\* What response() returns for page p of this config.
Served(p) == paginate(origin, paths, maxPerPage, [given |-> TRUE, str |-> toDecimal(p)])

\* A non-empty string of digits that does not start with 0.
Canonical(str) ==
    /\ Len(str) >= 1
    /\ \A k \in DOMAIN str : str[k] \in {"0", "1", "2", "3", "4", "5", "6", "7", "8", "9"}
    /\ str[1] # "0"

\* C3: for every config for which response() returns and every maxPerPage,
\* the pages "1" .. totalPages are each a urlset with status 200 and their
\* records, concatenated in page order, are the assembled list: no record
\* missing, none twice, the order kept.
C3_PagesConcatenate ==
    Responded =>
        /\ \A p \in 1..TotalPages :
              Served(p).status = 200 /\ Served(p).body.kind = "urlset"
        /\ Flatten([p \in 1..TotalPages |-> Served(p).body.urls]) = Records

\* Five records or more served two per page, the last page asked for.
C3_Witness ==
    /\ Responded /\ page.given
    /\ maxPerPage = 2 /\ Len(paths) >= 5 /\ Len(paths) % 2 = 1
    /\ page.str = toDecimal(TotalPages)
    /\ result.status = 200 /\ Len(result.body.urls) = 1

\* C4: without a page, the body is one urlset of every record when there are
\* at most maxPerPage records, and otherwise a sitemap index of
\* ceil(count / maxPerPage) children, origin/sitemap1.xml and so on in
\* ascending order, without any url record.
C4_NoPageFlatOrIndex ==
    (Responded /\ ~page.given) =>
        /\ result.status = 200
        /\ IF Len(paths) <= maxPerPage
           THEN /\ result.body.kind = "urlset"
                /\ result.body.urls = Records
                /\ result.body.sitemaps = <<>>
           ELSE /\ result.body.kind = "sitemapindex"
                /\ result.body.urls = <<>>
                /\ result.body.sitemaps =
                     [i \in 1..TotalPages |->
                        <<origin>> \o <<"/", "s", "i", "t", "e", "m", "a", "p">>
                          \o toDecimal(i) \o <<".", "x", "m", "l">>]

\* Five records, two per page: an index of three children.
C4_Witness ==
    /\ Responded /\ ~page.given
    /\ maxPerPage = 2 /\ Len(paths) = 5
    /\ result.body.kind = "sitemapindex" /\ Len(result.body.sitemaps) = 3

\* C5, as stated: every page string that is not a canonical positive integer
\* is answered with status 400 and no sitemap.
C5_InvalidPageIs400 ==
    (Responded /\ page.given /\ ~Canonical(page.str)) =>
        result.status = 400 /\ result.body.kind = "text"

\* C5, amended: every non-empty page string that is not a canonical positive
\* integer is answered with status 400 and no sitemap; the empty string is
\* answered like a missing page.
C5_NonEmptyInvalidPageIs400 ==
    /\ (Responded /\ page.given /\ page.str # <<>> /\ ~Canonical(page.str)) =>
          /\ result.status = 400
          /\ result.body = textBody("Invalid page param")
    /\ (Responded /\ page.given /\ page.str = <<>>) =>
          result = withNewHeaders(paginate(origin, paths, maxPerPage, NoPage), headers)

\* The page "01" of a config with records.
C5_Witness ==
    /\ Responded /\ page.given /\ page.str = <<"0", "1">>
    /\ paths # <<>>
    /\ result.status = 400

\* C6: for a canonical page p the status is 404 exactly when p > totalPages;
\* otherwise it is 200 and the urlset holds the records at the indices
\* [(p-1)*maxPerPage, p*maxPerPage) of the assembled list: at least one, at
\* most maxPerPage, and fewer than maxPerPage on the last page only.
C6_CanonicalPage ==
    (Responded /\ page.given /\ Canonical(page.str)) =>
        LET p == Number(page.str)
        IN  /\ result.status = 404 <=> p > TotalPages
            /\ p <= TotalPages =>
                  /\ result.status = 200
                  /\ result.body.kind = "urlset"
                  /\ result.body.urls =
                        SubSeq(Records, (p - 1) * maxPerPage + 1,
                               Min(p * maxPerPage, Len(paths)))
                  /\ Len(result.body.urls) \in 1..maxPerPage
                  /\ Len(result.body.urls) < maxPerPage => p = TotalPages

\* The page after the last one, and the last one.
C6_Witness ==
    /\ Responded /\ page.given /\ Canonical(page.str)
    /\ maxPerPage = 2 /\ Len(paths) >= 3
    /\ Number(page.str) = TotalPages
    /\ result.status = 200

-----------------------------------------------------------------------------
(* Properties of filterRoutes and of the expansion of optional parameters  *)
(* (specification Spec).                                                   *)

\* filterRoutes and processRoutesForOptionalParams have just returned (what
\* they read and what they returned does not change afterwards).
Filtered == pc = "generatePathsWithParamValues"

\* The route directory of a route file: what is left of the file name without
\* "/src/routes" and without its page file, "/" for the root.
RouteDir(file) ==
    LET dir == CHOOSE d \in { SubSeq(file, Len(SrcRoutes) + 1, k) :
                                k \in Len(SrcRoutes)..Len(file) } :
                   \E pageFile \in { PageSvelte, PageAtSvelte, PageMd, PageSvx } :
                       file = SrcRoutes \o d \o pageFile
    IN  IF dir = <<>> THEN <<"/">> ELSE dir

\* The segments of a list, each after a "/"; "/" when there is none.
JoinSegments(segments) ==
    IF segments = <<>> THEN <<"/">>
    ELSE Flatten([k \in DOMAIN segments |-> <<"/">> \o segments[k]])

\* A route directory without its (group) segments.
WithoutGroups(dir) ==
    JoinSegments(SelectSeq(splitSegments(dir), LAMBDA g : g[1] # "("))

\* The route files that no exclusion pattern matches, as indices of allRoutes.
KeptFiles ==
    { k \in DOMAIN allRoutes :
        \A pt \in DOMAIN excludeRoutePatterns :
            ~regexTest(excludeRoutePatterns[pt], RouteDir(allRoutes[k])) }

\* C7: filterRoutes returns, in ascending order, the routes without groups of
\* exactly the route files whose directory (before its groups are removed)
\* matches no exclusion pattern, one route per file; each starts with "/",
\* holds no group, and ends with "/" only when it is the root.
C7_FilterRoutes ==
    Filtered =>
        /\ Len(filteredRoutes) = Cardinality(KeptFiles)
        /\ \A r \in Range(filteredRoutes) \cup
                     { WithoutGroups(RouteDir(allRoutes[k])) : k \in KeptFiles } :
              Cardinality({ i \in DOMAIN filteredRoutes : filteredRoutes[i] = r })
                = Cardinality({ k \in KeptFiles :
                                  WithoutGroups(RouteDir(allRoutes[k])) = r })
        /\ \A i, j \in DOMAIN filteredRoutes :
              i < j => ~CodeUnitLess(filteredRoutes[j], filteredRoutes[i])
        /\ \A i \in DOMAIN filteredRoutes :
              /\ filteredRoutes[i][1] = "/"
              /\ indexOf(filteredRoutes[i], <<"/", "(">>) = -1
              /\ filteredRoutes[i][Len(filteredRoutes[i])] = "/"
                    => filteredRoutes[i] = <<"/">>

\* The pattern '(s)' drops the one route of two that is inside the group (s).
C7_Witness ==
    /\ Filtered
    /\ Len(excludeRoutePatterns) = 1 /\ excludeRoutePatterns[1].lit = <<"s">>
    /\ Len(allRoutes) = 2 /\ Len(filteredRoutes) = 1
    /\ \E k \in DOMAIN allRoutes : indexOf(allRoutes[k], <<"/", "(", "s", ")">>) # -1

\* The one application whose only route is /d/[[p]]/[[q]].
OnlyOptionalRoute ==
    allRoutes = << RouteFile(<<"/", "d", "/", "[", "[", "p", "]", "]",
                             "/", "[", "[", "q", "]", "]">>, PageSvelte) >>

\* C8, as stated: a pattern that ends with $ and matches one variant of a
\* route with optional parameters removes that variant: no route left after
\* the expansion matches such a pattern.
C8_VariantExcludedAlone ==
    (Filtered /\ OnlyOptionalRoute) =>
        \A k \in DOMAIN processedRoutes : \A pt \in DOMAIN excludeRoutePatterns :
            excludeRoutePatterns[pt].atEnd
              => ~regexTest(excludeRoutePatterns[pt], processedRoutes[k])

\* A segment that is an optional token other than the language token.
IsOptionalSegment(segment) ==
    /\ startsWith(segment, <<"[", "[">>)
    /\ LangTokenLen(segment, 1) # Len(segment)

\* The number of optional tokens of a route.
OptionalCount(route) ==
    Cardinality({ k \in DOMAIN splitSegments(route) :
                    IsOptionalSegment(splitSegments(route)[k]) })

\* The optional tokens of the route are its last segments, and there is one.
TrailingOptionals(route) ==
    LET segments == splitSegments(route)
        n == OptionalCount(route)
    IN  /\ n >= 1
        /\ \A k \in DOMAIN segments :
              IsOptionalSegment(segments[k]) <=> k > Len(segments) - n

\* The route cut before its first optional token, then one more token each.
ExpectedVariants(route) ==
    LET segments == splitSegments(route)
        n == OptionalCount(route)
    IN  [v \in 1..(n + 1) |->
            JoinSegments(SubSeq(segments, 1, Len(segments) - n + v - 1))]

\* C9: for a route whose optional tokens (the language token apart) are its
\* last N segments, N >= 1, processOptionalParams returns N+1 variants: the
\* route cut before its first optional token ("/" when nothing is left), then
\* each time the one before with the next optional token appended; and each
\* of them is a route of processRoutesForOptionalParams.
C9_TrailingOptionalVariants ==
    Filtered =>
        \A k \in DOMAIN filteredRoutes :
            TrailingOptionals(filteredRoutes[k]) =>
                /\ processOptionalParams(filteredRoutes[k])
                     = ExpectedVariants(filteredRoutes[k])
                /\ Range(ExpectedVariants(filteredRoutes[k]))
                     \subseteq Range(processedRoutes)

\* /d/[[p]]/[[q]] alone: three variants; and /[[p]], whose first is "/".
C9_Witness ==
    /\ Filtered
    /\ \E k \in DOMAIN filteredRoutes :
          /\ TrailingOptionals(filteredRoutes[k])
          /\ OptionalCount(filteredRoutes[k]) = 2
    /\ \E k \in DOMAIN filteredRoutes : filteredRoutes[k] = <<"/", "[", "[", "p", "]", "]">>
    /\ Len(processedRoutes) = 5
    /\ processedRoutes[1] = <<"/">>

-----------------------------------------------------------------------------
(* Properties of generatePathsWithParamValues (specification Spec).        *)

\* generatePathsWithParamValues has just returned its two lists.
Bound == pc = "assemble"

\* A segment that is a [x] or [[x]] token other than the language token.
IsTokenSegment(segment) ==
    /\ segment[1] = "[" /\ segment[Len(segment)] = "]"
    /\ LangTokenLen(segment, 1) # Len(segment)

\* The route with its i-th token segment replaced by the i-th value.
PathOfTuple(route, values) ==
    LET segments == splitSegments(route)
        nth(k)   == Cardinality({ j \in 1..k : IsTokenSegment(segments[j]) })
    IN  JoinSegments([k \in DOMAIN segments |->
                        IF IsTokenSegment(segments[k]) THEN values[nth(k)]
                        ELSE segments[k]])

\* The keys of paramValues with (withLang) or without a language token, in
\* key order: the keys whose paths one list of the two receives.
EntriesOf(withLang) ==
    SelectSeq(paramValues, LAMBDA e : (LangSpan(e.key) # {}) = withLang)

\* The paths of the k-th of these keys are found in the list after the paths
\* of the static routes and of the keys before it.
PathsOfKey(list, entries, k) ==
    LET all    == Flatten([j \in DOMAIN entries |-> entries[j].items])
        before == Flatten([j \in 1..(k - 1) |-> entries[j].items])
        from   == Len(list) - Len(all) + Len(before)
    IN  SubSeq(list, from + 1, from + Len(entries[k].items))

\* The routes that stay static: those without a key.
StaticRoutes(withLang) ==
    { k \in DOMAIN processedRoutes :
        /\ ~HasKey(processedRoutes[k])
        /\ (LangSpan(processedRoutes[k]) # {}) = withLang }

TuplesBound(list, withLang) ==
    LET entries == EntriesOf(withLang)
    IN  /\ Len(list) = Cardinality(StaticRoutes(withLang))
                         + Len(Flatten([j \in DOMAIN entries |-> entries[j].items]))
        /\ \A k \in DOMAIN entries :
              (entries[k].items # <<>> /\ entries[k].items[1].kind \in { "array", "object" })
                => /\ Len(PathsOfKey(list, entries, k)) = Len(entries[k].items)
                   /\ \A t \in DOMAIN entries[k].items :
                         PathsOfKey(list, entries, k)[t].path
                           = PathOfTuple(entries[k].key, entries[k].items[t].values)

\* C10: for a key whose list holds tuples, or records with values,
\* generatePathsWithParamValues emits one path per tuple, in the order of the
\* tuples: the key with its i-th token, counted from the left without the
\* language token, replaced by the i-th element, the language token kept.
C10_OnePathPerTuple ==
    Bound => TuplesBound(pathsWithoutLang, FALSE) /\ TuplesBound(pathsWithLang, TRUE)

\* /c/[x]/[y] bound by two tuples after another key, and a key with the
\* language token bound by records.
C10_Witness ==
    /\ Bound
    /\ Len(paramValues) = 2
    /\ paramValues[2].key = <<"/", "c", "/", "[", "x", "]", "/", "[", "y", "]">>
    /\ Len(paramValues[2].items) = 2 /\ paramValues[2].items[1].kind = "array"
    /\ paramValues[1].items # <<>>
    /\ pathsWithoutLang[Len(pathsWithoutLang)].path = <<"/", "c", "/", "y", "/", "z">>

-----------------------------------------------------------------------------
(* Properties of the language expansion (specification SpecLang).          *)

\* The records processPathsWithLang returned: the end of the generated list.
Expanded == SubSeq(generated, Len(pathsWithoutLang) + 1, Len(generated))

\* The configured languages: the default, then the alternates.
LangCodes == <<lang.default>> \o lang.alternates

\* The records of the i-th path given to processPathsWithLang.
VariantsOf(i) ==
    SubSeq(Expanded, (i - 1) * Len(LangCodes) + 1, i * Len(LangCodes))

\* The language token of the path is optional: [[lang]] or [[lang=m]].
OptionalLang(path) ==
    \E i \in LangSpan(path) :
        /\ \A k \in LangSpan(path) : i <= k
        /\ path[i + 1] = "["

\* The first and the last position of the language token of a path.
LangFirst(path) == CHOOSE i \in LangSpan(path) : \A k \in LangSpan(path) : i <= k
LangLast(path) == CHOOSE i \in LangSpan(path) : \A k \in LangSpan(path) : i >= k

\* The path with its language token replaced by a code.
LangReplaced(path, code) ==
    SubSeq(path, 1, LangFirst(path) - 1) \o code
      \o SubSeq(path, LangLast(path) + 1, Len(path))

\* The path without its language token and the "/" before it, "/" when
\* nothing is left.
LangRemoved(path) ==
    LET from == IF LangFirst(path) > 1 /\ path[LangFirst(path) - 1] = "/"
                THEN LangFirst(path) - 1 ELSE LangFirst(path)
        rest == SubSeq(path, 1, from - 1)
                  \o SubSeq(path, LangLast(path) + 1, Len(path))
    IN  IF rest = <<>> THEN <<"/">> ELSE rest

\* The path of the j-th language: the default language has no token when
\* the token is optional, every other one has its code in place of the token.
ExpectedLangPath(path, j) ==
    IF OptionalLang(path) /\ j = 1 THEN LangRemoved(path)
    ELSE LangReplaced(path, LangCodes[j])

\* C11: processPathsWithLang returns, for every path it is given, one record
\* per configured language, the default language first and then the
\* alternates in the order of the config.  With an optional token the path
\* of the default language has the token removed ("/" when nothing is left)
\* and the path of an alternate has its code in place of the token; with a
\* required token the path of the default language has the default code in
\* place of the token.
C11_LangVariants ==
    Bound =>
        /\ Len(Expanded) = Len(pathsWithLang) * Len(LangCodes)
        /\ \A i \in DOMAIN pathsWithLang : \A j \in DOMAIN LangCodes :
              VariantsOf(i)[j].path = ExpectedLangPath(pathsWithLang[i].path, j)

\* The routes /[[lang]] and /[lang]/n in three languages: "/" for the first
\* and /en/n for the second.
C11_Witness ==
    /\ Bound
    /\ Len(pathsWithLang) = 2 /\ Len(Expanded) = 6
    /\ Expanded[1].path = <<"/">>
    /\ Expanded[2].path = <<"/", "d", "e">>
    /\ Expanded[4].path = <<"/", "e", "n", "/", "n">>
    /\ Expanded[6].path = <<"/", "z", "h", "/", "n">>

\* C12: the records processPathsWithLang returns for one path all carry the
\* same alternates; that list has one entry for every configured language
\* and no other; and the path of each record is the path the list gives for
\* the language of the record.
C12_Reciprocity ==
    Bound =>
        \A i \in DOMAIN pathsWithLang :
            /\ \A j, k \in DOMAIN LangCodes :
                  VariantsOf(i)[j].alternates = VariantsOf(i)[k].alternates
            /\ \A j \in DOMAIN LangCodes :
                  LET alternates == VariantsOf(i)[j].alternates
                  IN  /\ Len(alternates) = Len(LangCodes)
                      /\ \A c \in DOMAIN LangCodes :
                            Cardinality({ a \in DOMAIN alternates :
                                            alternates[a].lang = LangCodes[c] }) = 1
                      /\ \A a \in DOMAIN alternates :
                            alternates[a].lang = LangCodes[j]
                              => alternates[a].path = VariantsOf(i)[j].path

\* /[[lang]]/f/[x] bound by two values: two pages of three languages each,
\* each page with its own alternates.
C12_Witness ==
    /\ Bound
    /\ Len(pathsWithLang) = 2 /\ Len(LangCodes) = 3
    /\ pathsWithLang[1].path = <<"/", "[", "[", "l", "a", "n", "g", "]", "]", "/", "f", "/", "v">>
    /\ Expanded[1].alternates = Expanded[3].alternates
    /\ Expanded[3].alternates # Expanded[4].alternates
    /\ Expanded[4].alternates[2].path = Expanded[5].path

\* The lang config was read and found missing: lang undefined, or without a
\* default, or without alternates.
LangConfigAbsent ==
    /\ pc \notin { "response", "generatePaths" }
    /\ origin # ""
    /\ lang.default = <<>> \/ lang.alternates = <<>>

\* C13: when a route file of the application holds the language token,
\* optional or required, and the config has no lang, or a lang without a
\* default, or a lang without alternates, generatePaths throws the error of
\* the lang property and no path is produced.
C13_MissingLangConfigThrows ==
    (LangConfigAbsent /\ \E k \in DOMAIN allRoutes : LangSpan(allRoutes[k]) # {}) =>
        /\ NothingReturned
        /\ result.error = "Must specify lang property"
        /\ filteredRoutes = <<>> /\ processedRoutes = <<>>

\* A required token, and a lang with a default and no alternates.
C13_Witness ==
    /\ LangConfigAbsent
    /\ lang.default = <<"e", "n">> /\ lang.alternates = <<>>
    /\ \E k \in DOMAIN allRoutes :
          LangSpan(allRoutes[k]) # {} /\ ~OptionalLang(allRoutes[k])
    /\ result.kind = "threw"

-----------------------------------------------------------------------------
(* Properties of the assembled list (specifications SpecPages, SpecLang).  *)

\* response() has just deduplicated and sorted its list.
Assembled == pc = "paginate"

\* The records of the additional paths: the path with a leading "/", the
\* defaults of the config, no lastmod and no alternates.
AdditionalRecords ==
    [k \in DOMAIN additionalPaths |->
        [path       |-> IF additionalPaths[k][1] = "/" THEN additionalPaths[k]
                        ELSE <<"/">> \o additionalPaths[k],
         changefreq |-> defaults.changefreq,
         lastmod    |-> "undefined",
         priority   |-> defaults.priority,
         alternates |-> <<>>]]

\* The list before deduplication: what processPaths returned when there is
\* one, the generated records and the additional records otherwise.
Transformed == applyProcessPaths(processPaths, generated \o AdditionalRecords)

\* The last record of a list that has this path.
LastWith(list, path) ==
    list[CHOOSE j \in DOMAIN list :
            /\ list[j].path = path
            /\ \A k \in DOMAIN list : k > j => list[k].path # path]

\* C14: the list response() goes on with has one record for each path of the
\* list before deduplication and no other, and the record of a path is the
\* last record of that list with the path, whichever source it came from:
\* generated, additional or added by processPaths.
C14_LastWriteWins ==
    Assembled =>
        /\ \A i, j \in DOMAIN paths : paths[i].path = paths[j].path => i = j
        /\ { paths[i].path : i \in DOMAIN paths }
              = { Transformed[j].path : j \in DOMAIN Transformed }
        /\ \A i \in DOMAIN paths : paths[i] = LastWith(Transformed, paths[i].path)

\* The path /e three times: generated with alternates, additional, and
\* appended by processPaths with a lastmod, which is the record kept.
C14_Witness ==
    /\ Assembled
    /\ processPaths = "appendExternal"
    /\ additionalPaths = << <<"/", "e">> >>
    /\ \E j \in DOMAIN generated :
          generated[j].path = <<"/", "e">> /\ generated[j].alternates # <<>>
    /\ \E i \in DOMAIN paths :
          /\ paths[i].path = <<"/", "e">>
          /\ paths[i].lastmod = "2024-06-01" /\ paths[i].alternates = <<>>

\* The records of a are records of b, in the order they have in b.
RECURSIVE IsSubList(_, _)
IsSubList(a, b) ==
    IF a = <<>> THEN TRUE
    ELSE IF b = <<>> THEN FALSE
    ELSE IF a[1] = b[1] THEN IsSubList(Tail(a), Tail(b))
    ELSE IsSubList(a, Tail(b))

\* The order of assembly: the paths without a language token, the paths of
\* the language expansion, the additional paths.
InAssemblyOrder == pathsWithoutLang \o Expanded \o AdditionalRecords

\* C15, as stated: with sort off and no processPaths, the list response()
\* paginates holds every path of the three groups, and its records are
\* records of the groups in the order of assembly: none of a later group
\* before one of an earlier group, each group in the order of generation.
C15_AssemblyOrder ==
    (Assembled /\ sort = "false" /\ processPaths = "undefined") =>
        /\ { paths[i].path : i \in DOMAIN paths }
              = { InAssemblyOrder[j].path : j \in DOMAIN InAssemblyOrder }
        /\ IsSubList(paths, InAssemblyOrder)

\* The paths of the static routes: the route itself, or each of its
\* language variants.
StaticPaths ==
    { processedRoutes[k] : k \in StaticRoutes(FALSE) }
      \cup { ExpectedLangPath(processedRoutes[k], j) :
               k \in StaticRoutes(TRUE), j \in DOMAIN LangCodes }

GeneratedPaths == { generated[k].path : k \in DOMAIN generated }

\* The static routes without a language token: each is its own path.
PlainStaticPaths == { processedRoutes[k] : k \in StaticRoutes(FALSE) }

\* C16, as stated: with sort off, no path bound by paramValues comes before
\* the path of a static route, the paths of the static routes are in ascending
\* order (read here for the routes without a language token only, whose
\* paths are the routes), and no additional path comes before a generated
\* one.
C16_StaticDynamicAdditional ==
    (Assembled /\ sort = "false" /\ processPaths = "undefined") =>
        \A i, j \in DOMAIN paths :
            i < j =>
              /\ ~(/\ paths[i].path \in GeneratedPaths \ StaticPaths
                   /\ paths[j].path \in StaticPaths)
              /\ (paths[i].path \in PlainStaticPaths /\ paths[j].path \in PlainStaticPaths)
                    => ~CodeUnitLess(paths[j].path, paths[i].path)
              /\ ~(/\ paths[i].path \notin GeneratedPaths
                   /\ paths[j].path \in GeneratedPaths)

\* The list is the deduplicated list in some order: the last record of each
\* path of the list before deduplication, once.
PermutationOfDeduplicated ==
    /\ \A i, j \in DOMAIN paths : paths[i].path = paths[j].path => i = j
    /\ Range(paths)
          = { LastWith(Transformed, Transformed[j].path) : j \in DOMAIN Transformed }

\* C17, as stated: with sort 'alpha' the list response() paginates is the
\* deduplicated list in ascending code unit order of the paths.
C17_CodePointOrder ==
    (Assembled /\ sort = "alpha") =>
        /\ PermutationOfDeduplicated
        /\ \A i, j \in DOMAIN paths :
              i < j => ~CodeUnitLess(paths[j].path, paths[i].path)

\* C17, amended: with sort 'alpha' the list response() paginates is the
\* deduplicated list in ascending order of localeCompare on the paths: a
\* lower-case letter before the same letter in upper case, and both before
\* the next letter.
C17_LocaleOrder ==
    (Assembled /\ sort = "alpha") =>
        /\ PermutationOfDeduplicated
        /\ \A i, j \in DOMAIN paths :
              i < j => localeCompare(paths[i].path, paths[j].path) <= 0

\* /a before /B, which code unit order puts the other way round.
C17_Witness ==
    /\ Assembled /\ sort = "alpha"
    /\ Len(paths) >= 2
    /\ \E i \in DOMAIN paths :
          /\ i < Len(paths)
          /\ paths[i].path = <<"/", "a">> /\ paths[i + 1].path = <<"/", "B">>

\* The number of different paths in the list processPaths returned.
DistinctPaths == Cardinality({ Transformed[j].path : j \in DOMAIN Transformed })

\* The least number of pages of maxPerPage records for that many paths.
PagesOfDistinct ==
    CHOOSE n \in 0..DistinctPaths :
        /\ n * maxPerPage >= DistinctPaths
        /\ n > 0 => (n - 1) * maxPerPage < DistinctPaths

\* The urls of a urlset are records of the list processPaths returned, each
\* the last record of its path, no two for the same path, and sorted when
\* the config asks for it.
UrlsOfTransformed(urls) ==
    /\ \A u \in DOMAIN urls :
          \E j \in DOMAIN Transformed :
              urls[u] = urlElement(origin, LastWith(Transformed, Transformed[j].path))
    /\ \A u, v \in DOMAIN urls : urls[u].loc = urls[v].loc => u = v
    /\ sort = "alpha" =>
          \A u, v \in DOMAIN urls :
              u < v => localeCompare(Tail(urls[u].loc), Tail(urls[v].loc)) <= 0

\* C18: with a processPaths callback, what response() returns is computed
\* from the list the callback returned for the generated and the additional
\* records together, called once, and deduplicated: the sitemap index and its
\* number of pages, the 404 of a page beyond the last, and the records of
\* every page count each path of that list once.
C18_ProcessPathsBeforePagination ==
    (Responded /\ processPaths # "undefined") =>
        /\ ~page.given =>
              IF DistinctPaths <= maxPerPage
              THEN /\ result.body.kind = "urlset"
                   /\ Len(result.body.urls) = DistinctPaths
                   /\ UrlsOfTransformed(result.body.urls)
              ELSE /\ result.body.kind = "sitemapindex"
                   /\ Len(result.body.sitemaps) = PagesOfDistinct
        /\ (page.given /\ Canonical(page.str)) =>
              LET p == Number(page.str)
              IN  /\ result.status = 404 <=> p > PagesOfDistinct
                  /\ p <= PagesOfDistinct =>
                        /\ result.body.kind = "urlset"
                        /\ Len(result.body.urls)
                              = Min(maxPerPage, DistinctPaths - (p - 1) * maxPerPage)
                        /\ UrlsOfTransformed(result.body.urls)

\* Four records of three paths after the callback appended /e once more, one
\* per page: there is no page 4.
C18_Witness ==
    /\ Responded /\ processPaths = "appendExternal"
    /\ Len(Transformed) = 4 /\ DistinctPaths = 3
    /\ maxPerPage = 1
    /\ page.given /\ page.str = <<"4">>
    /\ result.status = 404

-----------------------------------------------------------------------------
(* Properties of the fields of a record (specification SpecLang).          *)

\* The changefreq, the lastmod and the priority of a record.
Meta(record) == <<record.changefreq, record.lastmod, record.priority>>

\* The defaults of the config, and no lastmod.
DefaultMeta == <<defaults.changefreq, "undefined", defaults.priority>>

\* What the item of a paramValues list asks for: its own changefreq and
\* priority where it has them and the defaults where not, and its lastmod; a
\* string or a tuple asks for nothing.
ItemMeta(item) ==
    IF item.kind = "object"
    THEN << IF item.changefreq # "undefined" THEN item.changefreq
            ELSE defaults.changefreq,
            item.lastmod,
            IF item.priority # "undefined" THEN item.priority
            ELSE defaults.priority >>
    ELSE DefaultMeta

MetaBound(list, withLang) ==
    LET entries == EntriesOf(withLang)
        statics == Len(list) - Len(Flatten([j \in DOMAIN entries |-> entries[j].items]))
    IN  /\ \A k \in 1..statics : Meta(list[k]) = DefaultMeta
        /\ \A k \in DOMAIN entries : \A t \in DOMAIN entries[k].items :
              Meta(PathsOfKey(list, entries, k)[t]) = ItemMeta(entries[k].items[t])

\* C19: the record of a ParamValue item has the item's changefreq and
\* priority where the item has them, the defaults of the config where not,
\* and the item's lastmod; the records of static routes, of strings, of
\* tuples and of additional paths have the defaults and no lastmod; and the
\* records of the language variants of a path have the fields of that path.
C19_Metadata ==
    /\ Bound =>
          /\ MetaBound(pathsWithoutLang, FALSE)
          /\ MetaBound(pathsWithLang, TRUE)
          /\ \A i \in DOMAIN pathsWithLang : \A j \in DOMAIN LangCodes :
                Meta(VariantsOf(i)[j]) = Meta(pathsWithLang[i])
    /\ (Assembled /\ processPaths = "undefined") =>
          \A a \in DOMAIN AdditionalRecords : \E i \in DOMAIN paths :
              /\ paths[i].path = AdditionalRecords[a].path
              /\ Meta(paths[i]) = DefaultMeta

\* /[[lang]]/f/[x] bound by two records under the defaults weekly and 0.7:
\* the first keeps its daily, its 0.0 and its lastmod in every language, the
\* second takes the defaults.
C19_Witness ==
    /\ Bound
    /\ defaults.priority = "0.7"
    /\ Len(pathsWithLang) = 2 /\ Len(Expanded) = 6
    /\ Meta(Expanded[1]) = <<"daily", "2025-01-01", "0.0">>
    /\ Meta(Expanded[3]) = <<"daily", "2025-01-01", "0.0">>
    /\ Meta(Expanded[4]) = <<"weekly", "undefined", "0.7">>

\* The element of a field in a <url>: present with the value of the field
\* exactly when the record carries the field.
ElementOf(element, field) ==
    IF field = "undefined" THEN element = "" ELSE element = field

\* C20, as stated: the urlset has one <url> per record, in the order of the
\* records; its <loc> is the origin and the path; its <lastmod>, <changefreq>
\* and <priority> are there exactly when the record carries the field, for
\* every priority from 0.0 to 1.0; and it has one link per alternate, in
\* order, with the language and the origin and path of the alternate.
C20_UrlElements ==
    (Responded /\ result.body.kind = "urlset") =>
        /\ Len(result.body.urls) = Len(paths)
        /\ \A k \in DOMAIN paths :
              LET url == result.body.urls[k]
              IN  /\ url.loc = <<origin>> \o paths[k].path
                  /\ ElementOf(url.lastmod, paths[k].lastmod)
                  /\ ElementOf(url.changefreq, paths[k].changefreq)
                  /\ ElementOf(url.priority, paths[k].priority)
                  /\ Len(url.links) = Len(paths[k].alternates)
                  /\ \A a \in DOMAIN paths[k].alternates :
                        /\ url.links[a].hreflang = paths[k].alternates[a].lang
                        /\ url.links[a].href
                              = <<origin>> \o paths[k].alternates[a].path

-----------------------------------------------------------------------------
(* Properties of the requests (specification SpecRequests).                *)

\* Two header names that differ by the case of their letters at most.
SameName(a, b) == toLowerCase(a) = toLowerCase(b)

\* The custom header that counts for a name: the last one that has it.
CountsFor(k, name) ==
    /\ SameName(headers[k].name, name)
    /\ \A j \in DOMAIN headers : j > k => ~SameName(headers[j].name, name)

\* C21: a response of status 200 carries cache-control: max-age=0,
\* s-maxage=3600 and content-type: application/xml unless a custom header
\* has that name, whatever the case of its letters, and then it carries the
\* value of the custom header; every other custom header is carried too, and
\* the response carries nothing else and no name twice.
C21_Headers ==
    (Responded /\ result.status = 200) =>
        /\ \A d \in DOMAIN DefaultHeaders :
              /\ d \in DOMAIN result.headers
              /\ IF \E k \in DOMAIN headers : SameName(headers[k].name, d)
                 THEN \A k \in DOMAIN headers :
                        CountsFor(k, d) => result.headers[d] = headers[k].value
                 ELSE result.headers[d] = DefaultHeaders[d]
        /\ \A k \in DOMAIN headers :
              CountsFor(k, headers[k].name) =>
                \E n \in DOMAIN result.headers :
                    SameName(n, headers[k].name) /\ result.headers[n] = headers[k].value
        /\ \A n \in DOMAIN result.headers :
              \/ n \in DOMAIN DefaultHeaders
              \/ \E k \in DOMAIN headers : SameName(n, headers[k].name)
        /\ \A n, o \in DOMAIN result.headers : SameName(n, o) => n = o

\* Cache-Control: no-cache replaces the default, content-type stays.
C21_Witness ==
    /\ Responded /\ result.status = 200
    /\ Len(headers) = 1 /\ headers[1].name[1] = "C" /\ headers[1].value = "no-cache"
    /\ result.headers[CacheControl] = "no-cache"
    /\ result.headers[ContentType] = "application/xml"
    /\ result.body.urls # <<>>

\* C22: when config.origin is not given or is empty, response throws the
\* error of the origin and builds no Response, whatever the page of the
\* request and the routes of the application.
C22_MissingOriginThrows ==
    (origin \in { "undefined", "" } /\ pc # "response") =>
        /\ NothingReturned
        /\ result.error = "origin property is required"
        /\ filteredRoutes = <<>> /\ processedRoutes = <<>>

\* An empty origin, a page that is no number, a route that needs a value.
C22_Witness ==
    /\ origin = "" /\ pc = "done"
    /\ page.given /\ page.str = <<"x">>
    /\ \E k \in DOMAIN allRoutes : HoldsParamToken(allRoutes[k])
    /\ result.kind = "threw"

\* The config of the request is wrong: no origin, a language token and no
\* lang, a key of no route, or a route with a token and no key.
ConfigurationError ==
    \/ origin \in { "undefined", "" }
    \/ /\ \E k \in DOMAIN allRoutes : LangSpan(allRoutes[k]) # {}
       /\ lang.default = <<>> \/ lang.alternates = <<>>
    \/ StaleKey
    \/ UnresolvedRoute

\* The page of the request is no number, or is past the last page.
RequestError ==
    /\ page.given /\ page.str # <<>>
    /\ \/ ~isPageNumber(page.str)
       \/ Number(page.str) > 3

\* C25: when the config is wrong, response throws for every page, also for
\* a page that is no number or is out of range: it returns no Response of
\* status 400, 404 or 200; a Response is returned only after the paths were
\* generated without error.
C25_ConfigErrorsFirst ==
    /\ (pc = "done" /\ ConfigurationError) => result.kind = "threw"
    /\ result.kind = "response" => (pc = "done" /\ ~ConfigurationError)
    /\ result.kind = "pending" <=> pc # "done"

\* A route without its key, asked for the page 'x'; and a key of no route,
\* asked for page 4.
C25_Witness ==
    /\ pc = "done" /\ origin = Origin /\ result.kind = "threw"
    /\ RequestError
    /\ UnresolvedRoute \/ StaleKey
    /\ page.str \in { <<"x">>, <<"4">> }

-----------------------------------------------------------------------------
(* Properties of processOptionalParams (specification SpecSegments).       *)

\* The route has an optional token, and its language token, when it has
\* one, is its first segment.
OptionalRoute(route) ==
    /\ OptionalCount(route) >= 1
    /\ LangSpan(route) # {} => 2 \in LangSpan(route)

\* The first segment of the route when it is the language token, else none.
LeadingLang(route) ==
    IF LangSpan(route) # {} /\ 2 \in LangSpan(route)
    THEN <<Head(splitSegments(route))>> ELSE <<>>

\* The list a is the beginning of the list b.
IsPrefix(a, b) == Len(a) <= Len(b) /\ SubSeq(b, 1, Len(a)) = a

\* The variant is the previous one and one more segment.
OneMoreSegment(previous, variant) ==
    /\ Len(splitSegments(variant)) = Len(splitSegments(previous)) + 1
    /\ IsPrefix(splitSegments(previous), splitSegments(variant))

\* The segments of the route from the one after position a to its next
\* optional token, or to its end when no optional token follows.
ToNextOptional(route, a) ==
    LET segments == splitSegments(route)
        later == { e \in (a + 1)..Len(segments) : IsOptionalSegment(segments[e]) }
    IN  SubSeq(segments, a + 1,
               IF later = {} THEN Len(segments)
               ELSE CHOOSE e \in later : \A f \in later : e <= f)

\* C26, as stated: for a route with an optional token, each variant of
\* processOptionalParams after the first is the one before it and exactly
\* one more segment, the last variant is the route, and each variant begins
\* with the leading language token of the route.
C26_OneSegmentPerVariant ==
    Filtered =>
        \A k \in DOMAIN filteredRoutes :
            OptionalRoute(filteredRoutes[k]) =>
                LET variants == processOptionalParams(filteredRoutes[k])
                IN  /\ \A v \in 2..Len(variants) :
                          OneMoreSegment(variants[v - 1], variants[v])
                    /\ variants[Len(variants)] = filteredRoutes[k]
                    /\ \A v \in DOMAIN variants :
                          IsPrefix(LeadingLang(filteredRoutes[k]),
                                   splitSegments(variants[v]))

\* C26, amended: each variant after the first is the one before it and the
\* segments of the route that follow, up to the next optional token or to
\* the end of the route; the last variant is the route, and each variant
\* begins with the leading language token of the route.
C26_VariantPerOptional ==
    Filtered =>
        \A k \in DOMAIN filteredRoutes :
            OptionalRoute(filteredRoutes[k]) =>
                LET variants == processOptionalParams(filteredRoutes[k])
                IN  /\ \A v \in 2..Len(variants) :
                          splitSegments(variants[v])
                            = splitSegments(variants[v - 1])
                                \o ToNextOptional(filteredRoutes[k],
                                                  Len(splitSegments(variants[v - 1])))
                    /\ Len(variants) >= 2
                    /\ variants[Len(variants)] = filteredRoutes[k]
                    /\ \A v \in DOMAIN variants :
                          /\ IsPrefix(LeadingLang(filteredRoutes[k]),
                                      splitSegments(variants[v]))
                          /\ variants[v] \in Range(processedRoutes)

\* /[[lang]]/[[p]]/m/[[q]]: three variants, the last two segments longer.
C26_Witness ==
    /\ Filtered
    /\ filteredRoutes = << DirOf(<< OptionalLangSegment, <<"[", "[", "p", "]", "]">>,
                                    <<"m">>, <<"[", "[", "q", "]", "]">> >>) >>
    /\ Len(processedRoutes) = 3
    /\ processedRoutes[1] = DirOf(<< OptionalLangSegment >>)
    /\ processedRoutes[2] = DirOf(<< OptionalLangSegment, <<"[", "[", "p", "]", "]">> >>)

-----------------------------------------------------------------------------
(* Properties of deduplicatePaths (specification SpecPages).               *)

\* The places of the list before deduplication where a path stands for the
\* first time.
FirstPlaces ==
    { i \in DOMAIN Transformed :
        \A j \in DOMAIN Transformed : j < i => Transformed[j].path # Transformed[i].path }

\* The number of different paths generatePaths returned.
GeneratedCount == Cardinality({ generated[g].path : g \in DOMAIN generated })

-----------------------------------------------------------------------------
(* Properties of an empty list of values (specification Spec).             *)

\* The keys of paramValues whose list of values is empty.
EmptyKeys == { paramValues[e].key : e \in { d \in DOMAIN paramValues : paramValues[d].items = <<>> } }

\* The number of values of the keys with (withLang) or without a language
\* token.
ValueCount(withLang) ==
    Len(Flatten([j \in DOMAIN EntriesOf(withLang) |-> EntriesOf(withLang)[j].items]))

\* C28: a key of paramValues with an empty list resolves its route: the
\* error of the missing paramValues is thrown only for a route without a
\* key; and when generatePathsWithParamValues returns, the route of such a
\* key, which no exclusion pattern removed, is no path of the two lists, and
\* the lists hold the routes without a key and one path per value, so none
\* for this key.
C28_EmptyListResolves ==
    /\ (pc = "done" /\ result.error = "paramValues not provided") => UnresolvedRoute
    /\ Bound =>
          /\ ~UnresolvedRoute
          /\ \A key \in EmptyKeys :
                /\ key \in Range(processedRoutes)
                /\ \A k \in DOMAIN pathsWithoutLang : pathsWithoutLang[k].path # key
                /\ \A k \in DOMAIN pathsWithLang : pathsWithLang[k].path # key
          /\ Len(pathsWithoutLang) = Cardinality(StaticRoutes(FALSE)) + ValueCount(FALSE)
          /\ Len(pathsWithLang) = Cardinality(StaticRoutes(TRUE)) + ValueCount(TRUE)

\* The routes / and /b/[x], no exclusion pattern, and '/b/[x]': []: the one
\* path is /.
C28_Witness ==
    /\ Bound
    /\ excludeRoutePatterns = <<>>
    /\ processedRoutes = << <<"/">>, <<"/", "b", "/", "[", "x", "]">> >>
    /\ Len(paramValues) = 1 /\ paramValues[1].items = <<>>
    /\ paramValues[1].key = <<"/", "b", "/", "[", "x", "]">>
    /\ pathsWithLang = <<>>
    /\ Len(pathsWithoutLang) = 1 /\ pathsWithoutLang[1].path = <<"/">>

-----------------------------------------------------------------------------
(* Properties of the order of the checks (specification SpecRequests).     *)

\* A route file holds a language token.
LangRouteExists == \E k \in DOMAIN allRoutes : LangSpan(allRoutes[k]) # {}

\* Every route file with a language token is matched by an exclusion
\* pattern of the config.
LangRoutesExcluded ==
    /\ LangRouteExists
    /\ \A k \in KeptFiles : LangSpan(allRoutes[k]) = {}

\* C29: the lang config is validated for every route file, before the
\* exclusion patterns are applied: when a route file holds a language token
\* and the config has no lang, or a lang without a default or without
\* alternates, generatePaths throws the error of the lang property, whatever
\* the exclusion patterns, also when they match every such route; no route
\* is filtered before.
C29_LangCheckBeforeExclusion ==
    (/\ pc \notin { "response", "generatePaths" }
     /\ origin = Origin
     /\ LangRouteExists
     /\ lang.default = <<>> \/ lang.alternates = <<>>) =>
        /\ NothingReturned
        /\ result.error = "Must specify lang property"
        /\ filteredRoutes = <<>> /\ processedRoutes = <<>>

\* The pattern 'lang' matches the two routes with a language token; a route
\* without one is left.
C29_Witness ==
    /\ pc = "done" /\ origin = Origin
    /\ LangRoutesExcluded
    /\ excludeRoutePatterns # <<>>
    /\ lang.alternates = <<>>
    /\ result.error = "Must specify lang property"

-----------------------------------------------------------------------------
(* Properties of the alternates of the assembled list (specification       *)
(* SpecLang).                                                              *)

\* The records of the assembled list that have this path.
RecordsAt(path) == { j \in DOMAIN paths : paths[j].path = path }

\* The number of records with this path before deduplication.
Occurrences(path) ==
    Cardinality({ t \in DOMAIN Transformed : Transformed[t].path = path })

\* C30, as stated: without processPaths, for every record of the assembled
\* list and every path of its alternates, the list has a record with that
\* path and the same alternates.
C30_Reciprocity ==
    (Assembled /\ processPaths = "undefined") =>
        \A i \in DOMAIN paths : \A a \in DOMAIN paths[i].alternates :
            \E j \in RecordsAt(paths[i].alternates[a].path) :
                paths[j].alternates = paths[i].alternates

\* C30, amended: without processPaths, for every record of the assembled
\* list and every path of its alternates, the list has a record with that
\* path; it has the same alternates when the path stood once in the list
\* before deduplication, and it has no alternates when the path is also an
\* additional path.
C30_ReciprocityUnlessReplaced ==
    (Assembled /\ processPaths = "undefined") =>
        \A i \in DOMAIN paths : \A a \in DOMAIN paths[i].alternates :
            /\ RecordsAt(paths[i].alternates[a].path) # {}
            /\ \A j \in RecordsAt(paths[i].alternates[a].path) :
                  /\ Occurrences(paths[j].path) = 1
                        => paths[j].alternates = paths[i].alternates
                  /\ (\E k \in DOMAIN AdditionalRecords :
                          AdditionalRecords[k].path = paths[j].path)
                        => paths[j].alternates = <<>>

\* /de/e lists /e, en first, and the record of /e is the additional one.
C30_Witness ==
    /\ Assembled /\ processPaths = "undefined"
    /\ additionalPaths = << <<"/", "e">> >>
    /\ \E i \in DOMAIN paths :
          /\ paths[i].path = <<"/", "d", "e", "/", "e">>
          /\ Len(paths[i].alternates) = 3
          /\ paths[i].alternates[1].path = <<"/", "e">>
    /\ \E j \in RecordsAt(<<"/", "e">>) : paths[j].alternates = <<>>
    /\ \E i \in DOMAIN paths :
          /\ paths[i].path = <<"/", "z", "h", "/", "e">>
          /\ Occurrences(paths[i].path) = 1
          /\ \E j \in RecordsAt(<<"/", "d", "e", "/", "e">>) :
                paths[j].alternates = paths[i].alternates

-----------------------------------------------------------------------------
(* Properties of sampledUrls and sampledPaths (specification SpecSampled). *)

\* sampledUrls has returned its list.
Sampled == pc = "sampled" /\ sampled.kind = "returned"

\* The <loc> of the sitemap document, in document order.
Locs == [k \in DOMAIN result.body.urls |-> result.body.urls[k].loc]

\* C24, as stated: every URL that sampledUrls returns is the <loc> of an
\* entry of the sitemap document, and every path that sampledPaths returns
\* is the path of such a <loc>: no URL of a route that the exclusion
\* patterns kept out of the sitemap is returned.
C24_SampledFromSitemap ==
    Sampled =>
        /\ \A k \in DOMAIN sampled.urls : sampled.urls[k] \in Range(Locs)
        /\ \A k \in DOMAIN sampled.paths :
              \E u \in DOMAIN Locs : Locs[u] = <<origin>> \o sampled.paths[k]

\* The routes of the +page.svelte files of the application, without groups.
LiveRoutes ==
    { WithoutGroups(RouteDir(allRoutes[k])) :
        k \in { f \in DOMAIN allRoutes : endsWith(allRoutes[f], PageSvelte) } }

\* The URLs of the routes without a bracket.
StaticUrls ==
    { <<origin>> \o route : route \in { r \in LiveRoutes : "[" \notin Range(r) } }

\* The distinct patterns of the routes with a parameter.
DynamicPatterns ==
    { toRegexPattern(route) : route \in { r \in LiveRoutes : "[" \in Range(r) } }

\* The <loc> of the document that are no URL of a static route, in order.
OtherLocs ==
    Bind(StaticUrls, LAMBDA static : SelectSeq(Locs, LAMBDA loc : loc \notin static))

\* The places of OtherLocs that the pattern matches.
MatchesOf(pattern) ==
    Bind(OtherLocs, LAMBDA others :
        { k \in DOMAIN others : patternTest(pattern, others[k]) })

\* The first <loc> the pattern matches.
FirstMatch(pattern) ==
    Bind(MatchesOf(pattern), LAMBDA hits :
        OtherLocs[CHOOSE k \in hits : \A j \in hits : k <= j])

\* The patterns that match a <loc>.
MatchingPatterns ==
    Bind(DynamicPatterns, LAMBDA patterns : { q \in patterns : MatchesOf(q) # {} })

====
